---- MODULE Spec2Model ----
(***************************************************************************)
(* Model of the UroSmart federated aggregation core:                       *)
(*   backend/federated_learning.py  FederatedLearningManager ("manager")   *)
(*   backend/federated_server.py    FederatedAggregator      ("server")    *)
(*   backend/app.py                 the /api/model/* request handlers      *)
(*   backend/tflite_detector.py     TFLiteYOLODetector (decode, NMS)       *)
(* Both aggregator classes keep the same fields (pending_updates,          *)
(* current_version, global_model, lock); the variable `variant` says which *)
(* class the modelled process runs, and only that class's operations are   *)
(* enabled.                                                                *)
(* Numbers: weights, losses and accuracies are exact rationals <<n, d>> in *)
(* lowest terms (the code uses float64; rounding is outside this model).   *)
(***************************************************************************)
EXTENDS Integers, Sequences, FiniteSets, TLC

VARIABLES
    variant,            \* "manager" | "server": the aggregator class in use
    stream,             \* the submissions the clients of this run send, in order
    turn,               \* position in the stream of the next submission
    yolo_available,     \* federated_server.YOLO_AVAILABLE (import succeeded)
    pending_updates,    \* self.pending_updates
    current_version,    \* self.current_version
    global_model,       \* self.global_model (None or a GlobalModel)
    files,              \* MODEL_STORAGE_PATH: global_model_v{n}.json, global_model_latest.json
    is_online,          \* self.is_online (manager's cached probe result)
    last_online_check,  \* self.last_online_check
    now,                \* time.time()
    lock,               \* "free", or the handler that holds self.lock and is about to aggregate
    poller,             \* position of the _monitor_connectivity thread
    timer_alive,        \* whether the _periodic_aggregation thread is still running
    call,               \* the last mutating operation and what it returned
    interpreter,        \* TFLiteYOLODetector.interpreter: "loaded", or "none" for None
    request,            \* the detection request at hand: image fault, output tensor, threshold
    response,           \* what detect returned for it (None before the call)
    pc,                 \* where each request thread (1..) and the poller (0) stands
    local,              \* each thread's local variables
    federated_manager,  \* federated_learning._federated_manager: 0 for None, or the
                        \* number of the instance it refers to
    instances,          \* the FederatedLearningManager objects constructed: their queue lengths
    probes,             \* how many check_internet_connection() calls have returned
    cache_probe,        \* which of them self.is_online holds the result of (0: none)
    peer                \* a FederatedAggregator fed the same calls as the manager
                        \* (None where the two classes are not compared)

vars == <<variant, stream, turn, yolo_available, pending_updates, current_version, global_model,
          files, is_online, last_online_check, now, lock, poller, timer_alive, call,
          interpreter, request, response,
          pc, local, federated_manager, instances, probes, cache_probe, peer>>

\* The detector's part of the state, which no aggregator operation touches
detector_vars == <<interpreter, request, response>>

\* The threads' part of the state and the peer aggregator, which the
\* specifications that take each handler of one aggregator as one step leave
\* alone
thread_vars == <<pc, local, federated_manager, instances, probes, cache_probe, peer>>

(***************************************************************************)
(* Program constants and model bounds                                      *)
(***************************************************************************)
AGGREGATION_THRESHOLD == 3
FreshnessWindow == 30

MaxPending == 3
MaxVersion == 1
TickStep == 31
MaxTime == 62
MaxThreads == 2
MaxProbes == 2

(***************************************************************************)
(* Exact rational arithmetic: <<n, d>> with d > 0, in lowest terms         *)
(***************************************************************************)
RECURSIVE GCD(_, _)
GCD(a, b) ==
    IF b = 0 THEN a ELSE GCD(b, a % b)

Rat(n, d) ==
    LET g == GCD(n, d) IN <<n \div g, d \div g>>

RatAdd(x, y) ==
    Rat(x[1] * y[2] + y[1] * x[2], x[2] * y[2])

RatMul(x, y) ==
    Rat(x[1] * y[1], x[2] * y[2])

RatInt(n) ==
    <<n, 1>>

(***************************************************************************)
(* Data: ModelUpdate, GlobalModel, files                                   *)
(***************************************************************************)
None == [none |-> TRUE]

ModelUpdate(id, w, n, loss, acc) ==
    [device_id |-> id, weight_updates |-> w, num_samples |-> n,
     training_loss |-> loss, validation_accuracy |-> acc]

\* (aggregation_timestamp, datetime.now().isoformat(), is left out: it is
\* written into the model and the files and reported by get_status, and no
\* condition of the program reads it)
GlobalModel(v, w, devices, loss, acc) ==
    [version |-> v, weights |-> w, participating_devices |-> devices,
     average_loss |-> loss, average_accuracy |-> acc]

\* The submissions the model draws from: the two updates of the FedAvg example,
\* one with num_samples = 0, one with an extra layer, one with a one-element
\* vector, and one that carries a YOLO model path instead of vectors.
UpdA == ModelUpdate("A", [k1 |-> <<1, 2>>], 10, 1, 3)
UpdB == ModelUpdate("B", [k1 |-> <<3, 4>>], 30, 3, 1)
UpdZ == ModelUpdate("Z", [k1 |-> <<3, 4>>], 0, 2, 2)
UpdE == ModelUpdate("E", [k1 |-> <<3, 4>>, k2 |-> <<1, 2>>], 30, 3, 1)
UpdS == ModelUpdate("S", [k1 |-> <<5>>], 30, 3, 3)
UpdY == ModelUpdate("Y", [model_path |-> "client.pt"], 10, 1, 1)
UpdY0 == ModelUpdate("Y0", [model_path |-> "client.pt"], 0, 1, 1)

\* The streams of submissions: the clients of a run send the updates of one
\* stream round-robin.
ManagerStreams == {<<UpdA, UpdB>>, <<UpdA, UpdE>>, <<UpdZ>>}
ServerStreams == {<<UpdA, UpdB>>, <<UpdA, UpdS>>, <<UpdZ>>, <<UpdY, UpdA>>, <<UpdY0>>}

\* The position after `n` in a stream sent round-robin
\* Threads of the process: the poller is 0, request threads are 1, 2, ...
Threads == 1..MaxThreads
Procs == 0..MaxThreads

NextTurn(str, n) ==
    (n % Len(str)) + 1

Versions == 0..MaxVersion

NoFiles == [v |-> [n \in Versions |-> None], latest |-> None]

(***************************************************************************)
(* Connectivity                                                            *)
(***************************************************************************)
\* check_internet_connection(): the socket probe, else the HTTPS probe;
\* either success gives True. `reachable` is whether any probe succeeds.
check_internet_connection(reachable) ==
    reachable

\* (variant: every call probes, whatever the age of the cache)
is_connected_AlwaysProbe(online, last, t, reachable) ==
    [is_online |-> check_internet_connection(reachable),
     last_online_check |-> t,
     result |-> check_internet_connection(reachable)]

\* is_connected(): the new cache and the returned value.
is_connected(online, last, t, reachable) ==
    IF t - last > FreshnessWindow
    THEN [is_online |-> check_internet_connection(reachable),
          last_online_check |-> t,
          result |-> check_internet_connection(reachable)]
    ELSE [is_online |-> online, last_online_check |-> last, result |-> online]

(***************************************************************************)
(* Federated Averaging (the same loop in both aggregator classes)          *)
(***************************************************************************)
\* sum(update.num_samples for update in self.pending_updates)
RECURSIVE SumSamples(_)
SumSamples(q) ==
    IF Len(q) = 0 THEN 0 ELSE Head(q).num_samples + SumSamples(Tail(q))

\* Whether the inner loop raises for `key`: KeyError when an update lacks the
\* key; ValueError when np.array(<path string>, dtype=float64) is built, or
\* when `weighted_sum += ...` cannot broadcast (a one-element vector
\* broadcasts into a longer sum; nothing else of a different length does).
KeyRaises(q, key) ==
    \/ key = "model_path"
    \/ \E i \in 1..Len(q) : key \notin DOMAIN q[i].weight_updates
    \/ \E i \in 1..Len(q) :
          /\ key \in DOMAIN q[i].weight_updates
          /\ Len(q[i].weight_updates[key]) \notin {Len(q[1].weight_updates[key]), 1}

\* weight_keys = self.pending_updates[0].weight_updates.keys()
WeightKeys(q) ==
    DOMAIN q[1].weight_updates

AveragingRaises(q) ==
    \E key \in WeightKeys(q) : KeyRaises(q, key)

\* (variant: every update weighted 1/len, not num_samples/total)
RECURSIVE WeightedSumAt_Unweighted(_, _, _, _, _)
WeightedSumAt_Unweighted(q, total, key, j, i) ==
    IF i = 0 THEN RatInt(0)
    ELSE LET w == q[i].weight_updates[key]
             x == IF Len(w) = 1 THEN w[1] ELSE w[j]
         IN  RatAdd(WeightedSumAt_Unweighted(q, total, key, j, i - 1),
                    RatMul(RatInt(x), Rat(1, Len(q))))

\* weighted_sum[j] after the first i updates were added:
\* weighted_sum += update_weights * (update.num_samples / total_samples)
RECURSIVE WeightedSumAt(_, _, _, _, _)
WeightedSumAt(q, total, key, j, i) ==
    IF i = 0 THEN RatInt(0)
    ELSE LET w == q[i].weight_updates[key]
             x == IF Len(w) = 1 THEN w[1] ELSE w[j]
         IN  RatAdd(WeightedSumAt(q, total, key, j, i - 1),
                    RatMul(RatInt(x), Rat(q[i].num_samples, total)))

\* aggregated_weights: one vector per key of the first update
AggregatedWeights(q, total) ==
    [key \in WeightKeys(q) |->
        [j \in 1..Len(q[1].weight_updates[key]) |->
            WeightedSumAt(q, total, key, j, Len(q))]]

RECURSIVE SumLoss(_)
SumLoss(q) ==
    IF Len(q) = 0 THEN 0 ELSE Head(q).training_loss + SumLoss(Tail(q))

RECURSIVE SumAccuracy(_)
SumAccuracy(q) ==
    IF Len(q) = 0 THEN 0 ELSE Head(q).validation_accuracy + SumAccuracy(Tail(q))

\* (variant: the loss weighted by num_samples, as the weights are)
AvgLoss_SampleWeighted(q) ==
    LET RECURSIVE WeightedLoss(_)
        WeightedLoss(r) ==
            IF Len(r) = 0 THEN 0
            ELSE Head(r).num_samples * Head(r).training_loss + WeightedLoss(Tail(r))
    IN  Rat(WeightedLoss(q), SumSamples(q))

\* np.mean([u.training_loss ...]), np.mean([u.validation_accuracy ...])
AvgLoss(q) ==
    Rat(SumLoss(q), Len(q))

AvgAccuracy(q) ==
    Rat(SumAccuracy(q), Len(q))

\* The GlobalModel built from the pending updates as version v
NewGlobalModel(q, v) ==
    GlobalModel(v, AggregatedWeights(q, SumSamples(q)), Len(q),
                AvgLoss(q), AvgAccuracy(q))

(***************************************************************************)
(* FederatedLearningManager: persistence and aggregation                   *)
(***************************************************************************)
\* What can happen to the two writes of save_global_model
WriteOutcomes == {"ok", "fail_version", "fail_latest"}

\* FederatedLearningManager.save_global_model: the version-keyed file, then
\* the latest file; an exception of either write is caught and printed.
save_global_model(fs, gm, version, wr) ==
    IF gm = None THEN fs
    ELSE IF wr = "ok" THEN [v |-> [fs.v EXCEPT ![version] = gm], latest |-> gm]
    ELSE IF wr = "fail_latest" THEN [v |-> [fs.v EXCEPT ![version] = gm], latest |-> fs.latest]
    ELSE fs

\* (variant: current_version is incremented before the total_samples check)
aggregate_updates_BumpFirst(q, version, gm, fs, conn, wr) ==
    LET keep == [pending_updates |-> q, current_version |-> version,
                 global_model |-> gm, files |-> fs, result |-> FALSE]
    IN  IF Len(q) = 0 THEN keep
        ELSE IF ~conn THEN keep
        ELSE IF SumSamples(q) = 0 THEN [keep EXCEPT !.current_version = version + 1]
        ELSE IF AveragingRaises(q) THEN [keep EXCEPT !.current_version = version + 1]
        ELSE LET model == NewGlobalModel(q, version + 1)
             IN  [pending_updates |-> <<>>,
                  current_version |-> version + 1,
                  global_model |-> model,
                  files |-> save_global_model(fs, model, version + 1, wr),
                  result |-> TRUE]

\* FederatedLearningManager._aggregate_updates, given what its is_connected()
\* call returned (conn) and the outcome of the file writes.
\* (_update_backend_model only touches the detector and swallows every error.)
aggregate_updates(q, version, gm, fs, conn, wr) ==
    LET keep == [pending_updates |-> q, current_version |-> version,
                 global_model |-> gm, files |-> fs, result |-> FALSE]
    IN  IF Len(q) = 0 THEN keep
        ELSE IF ~conn THEN keep
        ELSE IF SumSamples(q) = 0 THEN keep
        ELSE IF AveragingRaises(q) THEN keep
        ELSE LET model == NewGlobalModel(q, version + 1)
             IN  [pending_updates |-> <<>>,
                  current_version |-> version + 1,
                  global_model |-> model,
                  files |-> save_global_model(fs, model, version + 1, wr),
                  result |-> TRUE]

(***************************************************************************)
(* FederatedAggregator: persistence and aggregation                        *)
(***************************************************************************)
\* What _aggregate_yolo_models can do: succeed, find no base model file, or
\* raise inside its try block (a model file that does not load, a failed copy)
YoloOutcomes == {"ok", "no_base", "error"}

\* FederatedAggregator._aggregate_yolo_models: new version and model
aggregate_yolo_models(q, version, gm, yres) ==
    IF SumSamples(q) = 0 \/ yres # "ok"
    THEN [current_version |-> version, global_model |-> gm]
    ELSE [current_version |-> version + 1,
          global_model |-> GlobalModel(version + 1, [model_path |-> "global_model_latest.pt"],
                                       Len(q), AvgLoss(q), AvgAccuracy(q))]

\* FederatedAggregator.save_global_model: the same two writes, not guarded:
\* a failing write raises out of the method.
srv_save_global_model(fs, gm, version, wr) ==
    save_global_model(fs, gm, version, wr)

\* FederatedAggregator._aggregate_updates; `raised` says an exception left it.
srv_aggregate_updates(q, version, gm, fs, yolo, yres, wr) ==
    LET keep == [pending_updates |-> q, current_version |-> version,
                 global_model |-> gm, files |-> fs, raised |-> FALSE]
        has_yolo_updates == \E i \in 1..Len(q) : "model_path" \in DOMAIN q[i].weight_updates
        averaged ==
            IF has_yolo_updates /\ yolo
            THEN aggregate_yolo_models(q, version, gm, yres)
            ELSE [current_version |-> version + 1,
                  global_model |-> NewGlobalModel(q, version + 1)]
    IN  IF Len(q) = 0 THEN keep
        ELSE IF ~(has_yolo_updates /\ yolo) /\ SumSamples(q) = 0 THEN keep
        ELSE IF ~(has_yolo_updates /\ yolo) /\ AveragingRaises(q)
             THEN [keep EXCEPT !.raised = TRUE]
        ELSE IF averaged.global_model # None /\ wr # "ok"
             THEN \* the write raised: nothing after it runs
                  [pending_updates |-> q,
                   current_version |-> averaged.current_version,
                   global_model |-> averaged.global_model,
                   files |-> srv_save_global_model(fs, averaged.global_model,
                                                   averaged.current_version, wr),
                   raised |-> TRUE]
        ELSE [pending_updates |-> <<>>,
              current_version |-> averaged.current_version,
              global_model |-> averaged.global_model,
              files |-> srv_save_global_model(fs, averaged.global_model,
                                              averaged.current_version, wr),
              \* print(self.global_model.participating_devices) on None
              raised |-> (averaged.global_model = None)]

(***************************************************************************)
(* State machine                                                           *)
(***************************************************************************)
\* What a mutating operation records in `call`: its name, the status it returned,
\* whether _aggregate_updates ran in it and what it returned ("none" when it
\* did not run), and the version / pending count the response carries.
Ret(op, status, agg, version, count) ==
    [op |-> op, status |-> status, agg |-> agg,
     new_version |-> version, pending_count |-> count]

AggOf(result) ==
    IF result THEN "true" ELSE "false"

\* No request thread is inside a handler and the poller sleeps; the one
\* aggregator object exists and no probe has been made.
ThreadsAtRest ==
    /\ pc = [p \in Procs |-> "idle"]
    /\ local = [p \in Procs |-> None]
    /\ federated_manager = 1
    /\ instances = <<0>>
    /\ probes = 0
    /\ cache_probe = 0
    /\ peer = None

\* The state after construction on an empty storage directory: __init__ of
\* either class, load_global_model finding no latest file.
Init ==
    /\ variant \in {"manager", "server"}
    /\ stream \in (IF variant = "manager" THEN ManagerStreams ELSE ServerStreams)
    /\ turn = 1
    /\ yolo_available \in (IF variant = "server" THEN BOOLEAN ELSE {FALSE})
    /\ pending_updates = <<>>
    /\ current_version = 0
    /\ global_model = None
    /\ files = NoFiles
    /\ is_online = FALSE
    /\ last_online_check = 0
    /\ now = FreshnessWindow + 1
    /\ lock = "free"
    /\ poller = "sleeping"
    /\ timer_alive = TRUE
    /\ call = Ret("init", "none", "none", 0, 0)
    /\ interpreter = "none"
    /\ request = None
    /\ response = None
    /\ ThreadsAtRest

\* ---- environment ----
Tick ==
    /\ now + TickStep <= MaxTime
    /\ now' = now + TickStep
    /\ UNCHANGED <<variant, stream, turn, yolo_available, pending_updates, current_version,
                   global_model, files, is_online, last_online_check, lock, poller,
                   timer_alive, call>>
    /\ UNCHANGED <<detector_vars, thread_vars>>

\* ---- FederatedLearningManager ----
\* app.submit_model_update with a payload that lacks a required field: 400,
\* add_update is not reached.
SubmitMissingFields ==
    /\ variant = "manager"
    /\ UNCHANGED vars

\* (variant: the update is appended before the connectivity gate)
AddUpdate_AppendBeforeGate ==
    /\ variant = "manager"
    /\ lock = "free"
    /\ Len(pending_updates) < MaxPending
    /\ current_version < MaxVersion \/ Len(pending_updates) + 1 < AGGREGATION_THRESHOLD
    /\ \E reach \in BOOLEAN :
        LET c == is_connected(is_online, last_online_check, now, reach) IN
        /\ is_online' = c.is_online
        /\ last_online_check' = c.last_online_check
        /\ IF ~c.result
           THEN /\ pending_updates' = Append(pending_updates, stream[turn])
                /\ lock' = "free"
                /\ call' = Ret("add_update", "offline", "none", current_version,
                               Len(pending_updates))
           ELSE /\ pending_updates' = Append(pending_updates, stream[turn])
                /\ IF Len(pending_updates) + 1 >= AGGREGATION_THRESHOLD
                   THEN /\ lock' = "add_update"
                        /\ call' = Ret("add_update", "aggregating", "none", current_version,
                                       Len(pending_updates) + 1)
                   ELSE /\ lock' = "free"
                        /\ call' = Ret("add_update", "pending", "none", current_version,
                                       Len(pending_updates) + 1)
    /\ turn' = NextTurn(stream, turn)
    /\ UNCHANGED <<variant, stream, yolo_available, current_version, global_model, files, now,
                   poller, timer_alive>>
    /\ UNCHANGED <<detector_vars, thread_vars>>

\* (variant: aggregation only above the threshold, not at it)
AddUpdate_StrictThreshold ==
    /\ variant = "manager"
    /\ lock = "free"
    /\ Len(pending_updates) < MaxPending
    /\ current_version < MaxVersion \/ Len(pending_updates) + 1 < AGGREGATION_THRESHOLD
    /\ \E reach \in BOOLEAN :
        LET c == is_connected(is_online, last_online_check, now, reach) IN
        /\ is_online' = c.is_online
        /\ last_online_check' = c.last_online_check
        /\ IF ~c.result
           THEN /\ pending_updates' = pending_updates
                /\ lock' = "free"
                /\ call' = Ret("add_update", "offline", "none", current_version,
                               Len(pending_updates))
           ELSE /\ pending_updates' = Append(pending_updates, stream[turn])
                /\ IF Len(pending_updates) + 1 > AGGREGATION_THRESHOLD
                   THEN /\ lock' = "add_update"
                        /\ call' = Ret("add_update", "aggregating", "none", current_version,
                                       Len(pending_updates) + 1)
                   ELSE /\ lock' = "free"
                        /\ call' = Ret("add_update", "pending", "none", current_version,
                                       Len(pending_updates) + 1)
    /\ turn' = NextTurn(stream, turn)
    /\ UNCHANGED <<variant, stream, yolo_available, current_version, global_model, files, now,
                   poller, timer_alive>>
    /\ UNCHANGED <<detector_vars, thread_vars>>

\* add_update up to the call of _aggregate_updates: take the lock, ask
\* is_connected(), append, compare with the threshold. `reach` is what a
\* probe made now finds.
AddUpdate ==
    /\ variant = "manager"
    /\ lock = "free"
    /\ Len(pending_updates) < MaxPending
    /\ current_version < MaxVersion \/ Len(pending_updates) + 1 < AGGREGATION_THRESHOLD
    /\ \E reach \in BOOLEAN :
        LET c == is_connected(is_online, last_online_check, now, reach) IN
        /\ is_online' = c.is_online
        /\ last_online_check' = c.last_online_check
        /\ IF ~c.result
           THEN /\ pending_updates' = pending_updates
                /\ lock' = "free"
                /\ call' = Ret("add_update", "offline", "none", current_version,
                               Len(pending_updates))
           ELSE /\ pending_updates' = Append(pending_updates, stream[turn])
                /\ IF Len(pending_updates) + 1 >= AGGREGATION_THRESHOLD
                   THEN /\ lock' = "add_update"
                        /\ call' = Ret("add_update", "aggregating", "none", current_version,
                                       Len(pending_updates) + 1)
                   ELSE /\ lock' = "free"
                        /\ call' = Ret("add_update", "pending", "none", current_version,
                                       Len(pending_updates) + 1)
    /\ turn' = NextTurn(stream, turn)
    /\ UNCHANGED <<variant, stream, yolo_available, current_version, global_model, files, now,
                   poller, timer_alive>>
    /\ UNCHANGED <<detector_vars, thread_vars>>

\* What a _aggregate_updates call made now under the lock returns and leaves
\* behind, with its own is_connected() call (not reached on an empty queue).
Aggregation(reach, wr) ==
    LET c == IF Len(pending_updates) = 0
             THEN [is_online |-> is_online, last_online_check |-> last_online_check,
                   result |-> FALSE]
             ELSE is_connected(is_online, last_online_check, now, reach)
        r == aggregate_updates(pending_updates, current_version, global_model, files,
                               c.result, wr)
    IN  [is_online |-> c.is_online, last_online_check |-> c.last_online_check,
         pending_updates |-> r.pending_updates, current_version |-> r.current_version,
         global_model |-> r.global_model, files |-> r.files, result |-> r.result]

\* The state change of that call
RunAggregate(a) ==
    /\ is_online' = a.is_online
    /\ last_online_check' = a.last_online_check
    /\ pending_updates' = a.pending_updates
    /\ current_version' = a.current_version
    /\ global_model' = a.global_model
    /\ files' = a.files

\* add_update from the call of _aggregate_updates to the return
AddUpdateAggregate ==
    /\ variant = "manager"
    /\ lock = "add_update"
    /\ \E reach \in BOOLEAN, wr \in WriteOutcomes :
        LET a == Aggregation(reach, wr) IN
        /\ RunAggregate(a)
        /\ call' = Ret("add_update", "aggregated", AggOf(a.result), a.current_version, 0)
    /\ lock' = "free"
    /\ UNCHANGED <<variant, stream, turn, yolo_available, now, poller, timer_alive>>
    /\ UNCHANGED <<detector_vars, thread_vars>>

\* (variant: the timer aggregates only at the threshold)
PeriodicAggregation_ThresholdOnly ==
    /\ variant = "manager"
    /\ lock = "free"
    /\ current_version < MaxVersion
    /\ \E reach \in BOOLEAN :
        LET c1 == is_connected(is_online, last_online_check, now, reach) IN
        /\ is_online' = c1.is_online
        /\ last_online_check' = c1.last_online_check
        /\ IF c1.result /\ Len(pending_updates) >= AGGREGATION_THRESHOLD
           THEN lock' = "timer"
           ELSE lock' = "free"
        /\ call' = Ret("periodic_aggregation",
                       IF lock' = "timer" THEN "aggregating" ELSE "idle",
                       "none", current_version, Len(pending_updates))
    /\ UNCHANGED <<variant, stream, turn, yolo_available, pending_updates, current_version,
                   global_model, files, now, poller, timer_alive>>
    /\ UNCHANGED <<detector_vars, thread_vars>>

\* One wake-up of _periodic_aggregation up to the call of _aggregate_updates:
\* the lock, the if (online and at the threshold) and the elif (non-empty and
\* online).
PeriodicAggregation ==
    /\ variant = "manager"
    /\ lock = "free"
    /\ current_version < MaxVersion
    /\ \E reach \in BOOLEAN :
        LET c1 == is_connected(is_online, last_online_check, now, reach)
            \* the elif's call, made when the queue is non-empty
            c2 == IF Len(pending_updates) > 0
                  THEN is_connected(c1.is_online, c1.last_online_check, now, reach)
                  ELSE c1
        IN
        /\ IF c1.result /\ Len(pending_updates) >= AGGREGATION_THRESHOLD
           THEN /\ lock' = "timer"
                /\ is_online' = c1.is_online
                /\ last_online_check' = c1.last_online_check
           ELSE /\ lock' = IF Len(pending_updates) > 0 /\ c2.result
                           THEN "timer" ELSE "free"
                /\ is_online' = c2.is_online
                /\ last_online_check' = c2.last_online_check
        /\ call' = Ret("periodic_aggregation",
                       IF lock' = "timer" THEN "aggregating" ELSE "idle",
                       "none", current_version, Len(pending_updates))
    /\ UNCHANGED <<variant, stream, turn, yolo_available, pending_updates, current_version,
                   global_model, files, now, poller, timer_alive>>
    /\ UNCHANGED <<detector_vars, thread_vars>>

\* The _aggregate_updates call of that wake-up, and the release of the lock
PeriodicAggregate ==
    /\ variant = "manager"
    /\ lock = "timer"
    /\ \E reach \in BOOLEAN, wr \in WriteOutcomes :
        LET a == Aggregation(reach, wr) IN
        /\ RunAggregate(a)
        /\ call' = Ret("periodic_aggregation", "done", AggOf(a.result), a.current_version,
                       Len(a.pending_updates))
    /\ lock' = "free"
    /\ UNCHANGED <<variant, stream, turn, yolo_available, now, poller, timer_alive>>
    /\ UNCHANGED <<detector_vars, thread_vars>>

\* One wake-up of _monitor_connectivity: probe, store the result, and read
\* the queue length, all without the lock.
MonitorConnectivity ==
    /\ variant = "manager"
    /\ poller = "sleeping"
    /\ \E reach \in BOOLEAN :
        /\ is_online' = check_internet_connection(reach)
        /\ last_online_check' = now
        /\ poller' = IF check_internet_connection(reach)
                        /\ Len(pending_updates) >= AGGREGATION_THRESHOLD
                     THEN "locking" ELSE "sleeping"
    /\ UNCHANGED <<variant, stream, turn, yolo_available, pending_updates, current_version,
                   global_model, files, now, lock, timer_alive, call>>
    /\ UNCHANGED <<detector_vars, thread_vars>>

\* The locked part of that wake-up: re-check the threshold, aggregate.
MonitorAggregate ==
    /\ variant = "manager"
    /\ poller = "locking"
    /\ lock = "free"
    /\ current_version < MaxVersion \/ Len(pending_updates) < AGGREGATION_THRESHOLD
    /\ IF Len(pending_updates) >= AGGREGATION_THRESHOLD
       THEN \E reach \in BOOLEAN, wr \in WriteOutcomes :
              LET a == Aggregation(reach, wr) IN
              /\ RunAggregate(a)
              /\ call' = Ret("monitor_connectivity", "done", AggOf(a.result),
                             a.current_version, Len(a.pending_updates))
       ELSE /\ call' = Ret("monitor_connectivity", "done", "none", current_version,
                           Len(pending_updates))
            /\ UNCHANGED <<pending_updates, current_version, global_model, files,
                           is_online, last_online_check>>
    /\ poller' = "sleeping"
    /\ UNCHANGED <<variant, stream, turn, yolo_available, now, lock, timer_alive>>
    /\ UNCHANGED <<detector_vars, thread_vars>>

\* get_global_model(): what it returns, and the read under the lock, which
\* changes nothing
get_global_model ==
    global_model

GetGlobalModel ==
    /\ variant = "manager"
    /\ lock = "free"
    /\ UNCHANGED vars

\* get_status(): read under the lock, with an is_connected() call
GetStatus ==
    /\ variant = "manager"
    /\ lock = "free"
    /\ \E reach \in BOOLEAN :
        LET c == is_connected(is_online, last_online_check, now, reach) IN
        /\ is_online' = c.is_online
        /\ last_online_check' = c.last_online_check
    /\ UNCHANGED <<variant, stream, turn, yolo_available, pending_updates, current_version,
                   global_model, files, now, lock, poller, timer_alive, call>>
    /\ UNCHANGED <<detector_vars, thread_vars>>

\* ---- FederatedAggregator ----
\* What FederatedAggregator._aggregate_updates does to the queue q under the lock
SrvAggregation(q, yres, wr) ==
    srv_aggregate_updates(q, current_version, global_model, files, yolo_available,
                          yres, wr)

SrvRunAggregate(r) ==
    /\ pending_updates' = r.pending_updates
    /\ current_version' = r.current_version
    /\ global_model' = r.global_model
    /\ files' = r.files

\* upload_update -> FederatedAggregator.add_update: append under the lock and
\* aggregate at the threshold; an exception becomes a 500 response.
SrvAddUpdate ==
    /\ variant = "server"
    /\ Len(pending_updates) < MaxPending
    /\ current_version < MaxVersion \/ Len(pending_updates) + 1 < AGGREGATION_THRESHOLD
    /\ LET q == Append(pending_updates, stream[turn]) IN
        IF Len(q) >= AGGREGATION_THRESHOLD
        THEN \E yres \in YoloOutcomes, wr \in WriteOutcomes :
               LET r == SrvAggregation(q, yres, wr) IN
               /\ SrvRunAggregate(r)
               /\ call' = Ret("upload_update", IF r.raised THEN "error" ELSE "received",
                              "ran", r.current_version, Len(r.pending_updates))
        ELSE /\ pending_updates' = q
             /\ call' = Ret("upload_update", "received", "none", current_version, Len(q))
             /\ UNCHANGED <<current_version, global_model, files>>
    /\ turn' = NextTurn(stream, turn)
    /\ UNCHANGED <<variant, stream, yolo_available, is_online, last_online_check, now, lock,
                   poller, timer_alive>>
    /\ UNCHANGED <<detector_vars, thread_vars>>

\* One wake-up of FederatedAggregator._periodic_aggregation; an exception
\* leaving _aggregate_updates ends the thread.
SrvPeriodicAggregation ==
    /\ variant = "server"
    /\ timer_alive
    /\ current_version < MaxVersion
    /\ IF Len(pending_updates) > 0
       THEN \E yres \in YoloOutcomes, wr \in WriteOutcomes :
              LET r == SrvAggregation(pending_updates, yres, wr) IN
              /\ SrvRunAggregate(r)
              /\ timer_alive' = ~r.raised
              /\ call' = Ret("periodic_aggregation", IF r.raised THEN "error" ELSE "done",
                             "ran", r.current_version, Len(r.pending_updates))
       ELSE /\ call' = Ret("periodic_aggregation", "idle", "none", current_version, 0)
            /\ UNCHANGED <<pending_updates, current_version, global_model, files,
                           timer_alive>>
    /\ UNCHANGED <<variant, stream, turn, yolo_available, is_online, last_online_check, now,
                   lock, poller>>
    /\ UNCHANGED <<detector_vars, thread_vars>>

\* POST /api/federated/trigger_aggregation
SrvTriggerAggregation ==
    /\ variant = "server"
    /\ current_version < MaxVersion
    /\ IF Len(pending_updates) > 0
       THEN \E yres \in YoloOutcomes, wr \in WriteOutcomes :
              LET r == SrvAggregation(pending_updates, yres, wr) IN
              /\ SrvRunAggregate(r)
              /\ call' = Ret("trigger_aggregation",
                             IF r.raised THEN "error" ELSE "completed",
                             "ran", r.current_version, Len(r.pending_updates))
       ELSE /\ call' = Ret("trigger_aggregation", "nothing_pending", "none",
                           current_version, 0)
            /\ UNCHANGED <<pending_updates, current_version, global_model, files>>
    /\ UNCHANGED <<variant, stream, turn, yolo_available, is_online, last_online_check, now,
                   lock, poller, timer_alive>>
    /\ UNCHANGED <<detector_vars, thread_vars>>

Next ==
    \/ Tick
    \/ SubmitMissingFields
    \/ AddUpdate
    \/ AddUpdateAggregate
    \/ PeriodicAggregation
    \/ PeriodicAggregate
    \/ MonitorConnectivity
    \/ MonitorAggregate
    \/ GetGlobalModel
    \/ GetStatus
    \/ SrvAddUpdate
    \/ SrvPeriodicAggregation
    \/ SrvTriggerAggregation

Spec == Init /\ [][Next]_vars

(***************************************************************************)
(* Properties                                                              *)
(***************************************************************************)
\* A step in which the manager's _aggregate_updates ran
ManagerAggregateStep ==
    /\ variant = "manager"
    /\ call'.agg # "none"
    /\ AddUpdateAggregate \/ PeriodicAggregate \/ MonitorAggregate

\* A step in which the server's _aggregate_updates ran
ServerAggregateStep ==
    /\ variant = "server"
    /\ call'.agg # "none"
    /\ SrvAddUpdate \/ SrvPeriodicAggregation \/ SrvTriggerAggregation

\* The queue that _aggregate_updates worked on in such a step
Batch ==
    IF variant = "server" /\ SrvAddUpdate
    THEN Append(pending_updates, stream[turn])
    ELSE pending_updates

\* C1: in the manager, current_version never decreases; a step changes it
\* exactly when _aggregate_updates ran in it and returned True, and then by
\* exactly 1.
C1_VersionStep ==
    [][variant = "manager" =>
        /\ current_version' \in {current_version, current_version + 1}
        /\ (current_version' = current_version + 1)
              <=> (call'.agg = "true" /\ ManagerAggregateStep)]_vars

C1_Witness ==
    /\ variant = "manager"
    /\ call.agg = "true"
    /\ current_version = 1

\* C2: an add_update call whose is_connected() returned False (the value left
\* in is_online) returns 'offline', leaves the queue, the version, the global
\* model and the files as they were, and starts no aggregation.
C2_OfflineAdmission ==
    [][(AddUpdate /\ ~is_online') =>
        /\ call'.op = "add_update"
        /\ call'.status = "offline"
        /\ lock' = "free"
        /\ UNCHANGED <<pending_updates, current_version, global_model, files>>]_vars

\* an offline refusal of what would have been the third queued update
C2_Witness ==
    /\ call.op = "add_update"
    /\ call.status = "offline"
    /\ Len(pending_updates) = AGGREGATION_THRESHOLD - 1
    /\ ~is_online

\* C3 as stated: the add_update call that brings the queue to the threshold
\* aggregates in that call and the queue is empty when it returns.
C3_Original ==
    [][/\ (AddUpdate /\ Len(pending_updates') >= AGGREGATION_THRESHOLD
                     /\ pending_updates' # pending_updates) => lock' = "add_update"
       /\ AddUpdateAggregate => pending_updates' = <<>>]_vars

\* C3 amended: that call runs _aggregate_updates before it returns, still
\* holding the lock; the queue is empty on return when the aggregation
\* succeeded (version + 1), and is the unchanged queue of >= 3 entries, with
\* the version unchanged, when it aborted.
C3_ThresholdTrigger ==
    [][/\ (AddUpdate /\ Len(pending_updates') >= AGGREGATION_THRESHOLD
                     /\ pending_updates' # pending_updates) => lock' = "add_update"
       /\ (AddUpdate /\ Len(pending_updates') < AGGREGATION_THRESHOLD) => lock' = "free"
       /\ AddUpdateAggregate =>
            /\ call'.status = "aggregated"
            /\ call'.agg \in {"true", "false"}
            /\ call'.agg = "true" =>
                  /\ pending_updates' = <<>>
                  /\ current_version' = current_version + 1
            /\ call'.agg = "false" =>
                  /\ pending_updates' = pending_updates
                  /\ Len(pending_updates) >= AGGREGATION_THRESHOLD
                  /\ current_version' = current_version]_vars

C3_Witness ==
    /\ call.op = "add_update"
    /\ call.status = "aggregated"
    /\ call.agg = "true"
    /\ pending_updates = <<>>
    /\ global_model # None
    /\ global_model.participating_devices = AGGREGATION_THRESHOLD

\* C4 as stated: every _aggregate_updates run of the manager either completes
\* (queue cleared, version + 1, the new model in the version-keyed file and in
\* the latest file) or aborts (queue, version and global model unchanged).
C4_Original ==
    [][ManagerAggregateStep =>
        \/ /\ pending_updates' = <<>>
           /\ current_version' = current_version + 1
           /\ global_model'.version = current_version'
           /\ files'.v[current_version'] = global_model'
           /\ files'.latest = global_model'
        \/ UNCHANGED <<pending_updates, current_version, global_model>>]_vars

\* Whether the updates of q differ in their key sets or vector lengths
MixedShapes(q) ==
    \E i, j \in 1..Len(q) :
        \/ DOMAIN q[i].weight_updates # DOMAIN q[j].weight_updates
        \/ \E key \in DOMAIN q[i].weight_updates \cap DOMAIN q[j].weight_updates :
              /\ key # "model_path"
              /\ Len(q[i].weight_updates[key]) # Len(q[j].weight_updates[key])

\* C5 as stated: a manager aggregation over updates that differ in key set or
\* vector length aborts: queue, version and global model unchanged.
C5_Original ==
    [][(ManagerAggregateStep /\ MixedShapes(pending_updates)) =>
        UNCHANGED <<pending_updates, current_version, global_model>>]_vars

\* C6 as stated: in both variants a step empties a non-empty queue only when
\* it produced a new global model with version = previous version + 1.
C6_Original ==
    [][(Len(pending_updates') = 0 /\ (Len(pending_updates) > 0 \/ SrvAddUpdate)) =>
        /\ current_version' = current_version + 1
        /\ global_model' # None
        /\ global_model' # global_model
        /\ global_model'.version = current_version']_vars

\* sum over the updates of q of num_samples * weight_updates[key][j]
RECURSIVE SampleWeighted(_, _, _)
SampleWeighted(q, key, j) ==
    IF Len(q) = 0 THEN 0
    ELSE Head(q).num_samples * Head(q).weight_updates[key][j]
         + SampleWeighted(Tail(q), key, j)

\* C7: in both variants, after a step that produced a new version from weight
\* vectors (a successful aggregation over the batch it worked on),
\* total * aggregated[k][j] = sum_i num_samples_i * u_i.weight_updates[k][j]
\* for every key k and index j of the new global weights for which every
\* update of the batch has an entry.
C7_FedAvg ==
    [][(/\ current_version' = current_version + 1
        /\ "model_path" \notin DOMAIN global_model'.weights) =>
        LET q == Batch
            w == global_model'.weights
        IN  \A key \in DOMAIN w : \A j \in DOMAIN w[key] :
              (\A i \in 1..Len(q) : /\ key \in DOMAIN q[i].weight_updates
                                    /\ j <= Len(q[i].weight_updates[key]))
              => RatMul(RatInt(SumSamples(q)), w[key][j])
                    = RatInt(SampleWeighted(q, key, j))]_vars

\* A(10, [1, 2]) and B(30, [3, 4]) aggregated into [2.5, 3.5]
C7_Witness ==
    /\ global_model # None
    /\ global_model.participating_devices = 2
    /\ DOMAIN global_model.weights = {"k1"}
    /\ global_model.weights.k1 = <<Rat(5, 2), Rat(7, 2)>>

\* C8 as stated: in both variants an aggregation over a queue whose
\* num_samples sum to 0 leaves the queue, the version and the global model
\* unchanged.
C8_Original ==
    [][((ManagerAggregateStep \/ ServerAggregateStep) /\ SumSamples(Batch) = 0) =>
        /\ pending_updates' = Batch
        /\ UNCHANGED <<current_version, global_model>>]_vars

\* C9 as stated: with a global model present, add_update does not admit an
\* update whose key set differs from the global model's: the queue, the
\* version and the global model stay as they were.
C9_Original ==
    [][(/\ AddUpdate
        /\ global_model # None
        /\ DOMAIN stream[turn].weight_updates # DOMAIN global_model.weights) =>
        UNCHANGED <<pending_updates, current_version, global_model>>]_vars

C11_Original ==
    [][(MonitorConnectivity /\ is_online' /\ Len(pending_updates) >= 1) =>
        poller' = "locking"]_vars

\* Whether the is_connected() call of this step went to the network: the
\* cache was older than the freshness window and was refreshed now.
ProbeMade ==
    /\ now - last_online_check > FreshnessWindow
    /\ last_online_check' = now

\* The steps of a thread that holds self.lock throughout
LockHolderStep ==
    \/ AddUpdate
    \/ AddUpdateAggregate
    \/ PeriodicAggregation
    \/ PeriodicAggregate
    \/ MonitorAggregate
    \/ GetStatus

\* C12 as stated: no thread probes the network while it holds the lock.
C12_Original ==
    [][LockHolderStep => ~ProbeMade]_vars

\* C13 as stated: the poller reads the pending queue only while it holds the
\* lock, so its read never happens while another thread holds the lock.
C13_Original ==
    [][MonitorConnectivity => lock = "free"]_vars

\* C18 as stated: add_update returns 'offline' with nothing enqueued, or
\* 'pending' with pending_count = the queue length after the append, below the
\* threshold, or 'aggregated' with new_version = the version of a model
\* produced in that call (previous version + 1) and the queue empty.
C18_Original ==
    [][/\ (AddUpdate /\ lock' = "free") =>
            \/ /\ call'.status = "offline"
               /\ pending_updates' = pending_updates
            \/ /\ call'.status = "pending"
               /\ call'.pending_count = Len(pending_updates')
               /\ Len(pending_updates') = Len(pending_updates) + 1
               /\ call'.pending_count < AGGREGATION_THRESHOLD
       /\ AddUpdateAggregate =>
            /\ call'.status = "aggregated"
            /\ current_version' = current_version + 1
            /\ call'.new_version = current_version'
            /\ global_model' # None
            /\ global_model'.version = call'.new_version
            /\ pending_updates' = <<>>]_vars

(***************************************************************************)
(* Restarts and crashes: the storage directory outlives the process        *)
(***************************************************************************)
\* A file that exists and holds an empty or cut-off JSON text: open(path, 'w')
\* has truncated it and json.dump has not finished.
Torn == [torn |-> TRUE]

\* Where a process that dies inside save_global_model can stop
CrashPoints == {"in_version_write", "between_writes", "in_latest_write"}

\* The files a save_global_model call leaves when the process dies at `cp`
crashed_save(fs, gm, version, cp) ==
    IF cp = "in_version_write"
    THEN [v |-> [fs.v EXCEPT ![version] = Torn], latest |-> fs.latest]
    ELSE IF cp = "between_writes"
    THEN [v |-> [fs.v EXCEPT ![version] = gm], latest |-> fs.latest]
    ELSE [v |-> [fs.v EXCEPT ![version] = gm], latest |-> Torn]

\* FederatedLearningManager.load_global_model on the files fs, from the
\* constructor's current_version = 0 and global_model = None: no latest file
\* leaves them; a latest file that does not parse raises, which is caught.
load_global_model(fs) ==
    IF fs.latest = None \/ fs.latest = Torn
    THEN [current_version |-> 0, global_model |-> None]
    ELSE [current_version |-> fs.latest.version, global_model |-> fs.latest]

\* What a new process has in memory after FederatedLearningManager.__init__
Constructed(fs) ==
    /\ pending_updates' = <<>>
    /\ current_version' = load_global_model(fs).current_version
    /\ global_model' = load_global_model(fs).global_model
    /\ is_online' = FALSE
    /\ last_online_check' = 0
    /\ lock' = "free"
    /\ poller' = "sleeping"
    /\ timer_alive' = TRUE

\* The process ends (at any point outside save_global_model) and a new one
\* is started on the same storage directory.
Restart ==
    /\ variant = "manager"
    /\ Constructed(files)
    /\ call' = Ret("restart", "loaded", "none", current_version', 0)
    /\ UNCHANGED <<variant, stream, turn, yolo_available, files, now>>
    /\ UNCHANGED <<detector_vars, thread_vars>>

\* The process dies inside the save_global_model call of an aggregation that
\* got as far as saving, and a new one is started.
CrashInSave ==
    /\ variant = "manager"
    /\ lock \in {"add_update", "timer"}
    /\ \E reach \in BOOLEAN, cp \in CrashPoints :
        LET a == Aggregation(reach, "ok") IN
        /\ a.result
        /\ files' = crashed_save(files, a.global_model, a.current_version, cp)
        /\ Constructed(files')
        /\ call' = Ret("restart", "crashed", "none", current_version', 0)
    /\ UNCHANGED <<variant, stream, turn, yolo_available, now>>
    /\ UNCHANGED <<detector_vars, thread_vars>>

\* A manager fed the two updates of the FedAvg example
InitPersist ==
    /\ Init
    /\ variant = "manager"
    /\ stream = <<UpdA, UpdB>>

NextPersist ==
    \/ AddUpdate
    \/ AddUpdateAggregate
    \/ PeriodicAggregation
    \/ PeriodicAggregate
    \/ Restart
    \/ CrashInSave

SpecPersist == InitPersist /\ [][NextPersist]_vars

\* C14 as stated: the version in global_model_latest.json is the highest
\* version among the global_model_v{n}.json files (no latest file exactly
\* when there is no version file).
C14_Original ==
    LET persisted == {n \in Versions : files.v[n] # None /\ files.v[n] # Torn}
    IN  IF persisted = {}
        THEN files.latest = None
        ELSE /\ files.latest # None
             /\ files.latest # Torn
             /\ files.latest.version \in persisted
             /\ \A n \in persisted : n <= files.latest.version

\* C15 as stated: global_model_latest.json never holds an empty or partly
\* written text: a reader finds the complete previous or the complete new
\* content.
C15_Original ==
    files.latest # Torn

\* C16 as stated: a new manager constructed on the persisted state has the
\* current_version and the global model the old one had.
C16_Original ==
    [][Restart =>
        /\ current_version' = current_version
        /\ global_model' = global_model]_vars

(***************************************************************************)
(* Query endpoints                                                         *)
(***************************************************************************)
\* What a query records in `call`: its name, the kind of answer and the body
Query(op, status, body) ==
    [op |-> op, status |-> status, agg |-> "none", body |-> body]

\* app.get_latest_model: get_global_model() under the lock, then
\* is_connected() when there is a model; the answer and the new cache.
get_latest_model(gm, online, last, t, reach) ==
    LET c == is_connected(online, last, t, reach) IN
    IF gm = None
    THEN [status |-> "no_model", body |-> [model_available |-> FALSE],
          is_online |-> online, last_online_check |-> last]
    ELSE IF ~c.result
    THEN [status |-> "offline", body |-> [model_available |-> FALSE],
          is_online |-> c.is_online, last_online_check |-> c.last_online_check]
    ELSE [status |-> "model",
          body |-> [model_available |-> TRUE, version |-> gm.version,
                    weights |-> gm.weights,
                    participating_devices |-> gm.participating_devices,
                    average_accuracy |-> gm.average_accuracy],
          is_online |-> c.is_online, last_online_check |-> c.last_online_check]

GetLatestModel ==
    /\ variant = "manager"
    /\ lock = "free"
    /\ \E reach \in BOOLEAN :
        LET r == get_latest_model(global_model, is_online, last_online_check, now, reach) IN
        /\ is_online' = r.is_online
        /\ last_online_check' = r.last_online_check
        /\ call' = Query("get_latest_model", r.status, r.body)
    /\ UNCHANGED <<variant, stream, turn, yolo_available, pending_updates, current_version,
                   global_model, files, now, lock, poller, timer_alive>>
    /\ UNCHANGED <<detector_vars, thread_vars>>

\* (variant: has_update is not gated by connectivity)
check_model_updates_Ungated(gm, client_version, online, last, t, reach) ==
    LET newer == gm # None /\ gm.version > client_version
        c2 == is_connected(online, last, t, reach)
    IN  [has_update |-> newer,
         latest_version |-> IF gm # None THEN gm.version ELSE 0,
         online |-> c2.result,
         client_version |-> client_version,
         is_online |-> c2.is_online, last_online_check |-> c2.last_online_check]

\* app.check_model_updates for ?version=client_version: `has_update and
\* manager.is_connected()` calls is_connected() only when has_update is true;
\* the 'online' field is a second call.
check_model_updates(gm, client_version, online, last, t, reach) ==
    LET newer == gm # None /\ gm.version > client_version
        c1 == IF newer
              THEN is_connected(online, last, t, reach)
              ELSE [is_online |-> online, last_online_check |-> last, result |-> FALSE]
        c2 == is_connected(c1.is_online, c1.last_online_check, t, reach)
    IN  [has_update |-> newer /\ c1.result,
         latest_version |-> IF gm # None THEN gm.version ELSE 0,
         online |-> c2.result,
         client_version |-> client_version,
         is_online |-> c2.is_online, last_online_check |-> c2.last_online_check]

CheckModelUpdates ==
    /\ variant = "manager"
    /\ lock = "free"
    /\ \E client_version \in Versions, reach \in BOOLEAN :
        LET r == check_model_updates(global_model, client_version, is_online,
                                     last_online_check, now, reach) IN
        /\ is_online' = r.is_online
        /\ last_online_check' = r.last_online_check
        /\ call' = Query("check_model_updates", "ok",
                         [has_update |-> r.has_update, latest_version |-> r.latest_version,
                          online |-> r.online, client_version |-> r.client_version])
    /\ UNCHANGED <<variant, stream, turn, yolo_available, pending_updates, current_version,
                   global_model, files, now, lock, poller, timer_alive>>
    /\ UNCHANGED <<detector_vars, thread_vars>>

\* FederatedAggregator._create_initial_model at time t: the YOLO model file
\* when it is there (initial) and YOLO is importable, else placeholder weights
create_initial_model(yolo, initial, t) ==
    [version |-> 0,
     weights |-> IF initial /\ yolo
                 THEN [model_path |-> "global_model_latest.pt"]
                 ELSE [key \in {"yeast_weights", "triple_phosphate_weights",
                                "calcium_oxalate_weights", "squamous_cells_weights"} |->
                          [j \in 1..10 |-> Rat(1, 4)]],
     participating_devices |-> 0,
     aggregation_timestamp |-> t,
     average_loss |-> RatInt(0),
     average_accuracy |-> RatInt(0)]

\* FederatedAggregator.get_global_model
srv_get_global_model(gm, yolo, initial, t) ==
    IF gm = None THEN create_initial_model(yolo, initial, t) ELSE gm

\* GET /api/federated/global_model.  A server that holds no model found no
\* initial model file when it was constructed: load_global_model would have
\* made the model from it.
SrvGetGlobalModel ==
    /\ variant = "server"
    /\ call' = Query("get_global_model", "ok",
                     srv_get_global_model(global_model, yolo_available, FALSE, now))
    /\ UNCHANGED <<variant, stream, turn, yolo_available, pending_updates, current_version,
                   global_model, files, is_online, last_online_check, now, lock, poller,
                   timer_alive>>
    /\ UNCHANGED <<detector_vars, thread_vars>>

\* Either aggregator fed the two updates of the FedAvg example
InitRead ==
    /\ Init
    /\ stream = <<UpdA, UpdB>>

NextRead ==
    \/ Tick
    \/ AddUpdate
    \/ AddUpdateAggregate
    \/ PeriodicAggregation
    \/ PeriodicAggregate
    \/ GetGlobalModel
    \/ GetLatestModel
    \/ CheckModelUpdates
    \/ SrvAddUpdate
    \/ SrvPeriodicAggregation
    \/ SrvGetGlobalModel

SpecRead == InitRead /\ [][NextRead]_vars

\* C17 as stated: two consecutive get_global_model() calls with nothing
\* recorded between them return the same content, in both variants, also
\* before any model was produced.
C17_Original ==
    [][/\ GetGlobalModel => get_global_model' = get_global_model
       /\ (SrvGetGlobalModel /\ call.op = "get_global_model") =>
            call'.body = call.body]_vars

\* C19: check_model_updates for client version v reports has_update = true
\* exactly when a global model with version > v exists and is_connected()
\* reports online; latest_version is that model's version, or 0 without one.
C19_HasUpdate ==
    [][CheckModelUpdates =>
        LET r == call'.body IN
        /\ call'.op = "check_model_updates"
        /\ r.client_version \in Versions
        /\ r.has_update <=> (/\ global_model # None
                             /\ global_model.version > r.client_version
                             /\ is_online')
        /\ r.online = is_online'
        /\ r.latest_version = (IF global_model = None THEN 0 ELSE global_model.version)
        /\ UNCHANGED <<pending_updates, current_version, global_model, files>>]_vars

\* a client at version 0 told about version 1
C19_Witness ==
    /\ call.op = "check_model_updates"
    /\ call.body.has_update
    /\ call.body.client_version = 0
    /\ call.body.latest_version = 1
    /\ is_online

\* C20 as stated: get_latest_model answers no-model when there is no global
\* model, offline when there is one and is_connected() is False, and else the
\* model with version = current_version; get_global_model returns a null model
\* when none was ever produced.
C20_Original ==
    [][/\ GetLatestModel =>
            call'.status = (IF global_model = None THEN "no_model"
                            ELSE IF ~is_online' THEN "offline" ELSE "model")
       /\ (GetLatestModel /\ call'.status = "model") =>
            /\ call'.body.version = current_version
            /\ call'.body.weights = global_model.weights
       /\ GetGlobalModel => (global_model = None => get_global_model = None)
       /\ (SrvGetGlobalModel /\ global_model = None) => call'.body = None]_vars

(***************************************************************************)
(* Metrics of an aggregation                                               *)
(***************************************************************************)
\* q[1][field] + ... + q[i][field]
RECURSIVE FieldTotal(_, _, _)
FieldTotal(q, field, i) ==
    IF i = 0 THEN 0 ELSE q[i][field] + FieldTotal(q, field, i - 1)

\* C22: when the manager's _aggregate_updates produces a new version from n
\* pending updates, n * average_loss is the sum of their training_loss,
\* n * average_accuracy the sum of their validation_accuracy (num_samples has
\* no part in either), and participating_devices = n.
C22_UnweightedMeans ==
    [][(variant = "manager" /\ current_version' = current_version + 1) =>
        LET q == pending_updates
            n == Len(q)
        IN  /\ n > 0
            /\ global_model'.participating_devices = n
            /\ RatMul(RatInt(n), global_model'.average_loss)
                  = RatInt(FieldTotal(q, "training_loss", n))
            /\ RatMul(RatInt(n), global_model'.average_accuracy)
                  = RatInt(FieldTotal(q, "validation_accuracy", n))]_vars

\* A (10 samples, loss 1, accuracy 3) and B (30 samples, loss 3, accuracy 1)
\* give loss 2 and accuracy 2; weighting by samples would give 5/2 and 3/2
C22_Witness ==
    /\ variant = "manager"
    /\ global_model # None
    /\ global_model.participating_devices = 2
    /\ global_model.average_loss = RatInt(2)
    /\ global_model.average_accuracy = RatInt(2)

(***************************************************************************)
(* Model history of the server                                             *)
(***************************************************************************)
\* A file name of MODEL_STORAGE_PATH, cut into the pieces the name tests of
\* get_model_history tell apart: 'global_model_' 'v' '1' '.json'
VersionFile(n, ext) == <<"global_model_", "v", ToString(n), ext>>

LatestFile(ext) == <<"global_model_", "latest", ext>>

\* filename.startswith('global_model_v') and filename.endswith('.json')
IsVersionJson(filename) ==
    /\ SubSeq(filename, 1, 2) = <<"global_model_", "v">>
    /\ filename[Len(filename)] = ".json"

\* The names os.listdir(MODEL_STORAGE_PATH) yields for the storage fs: the
\* JSON files, and next to a YOLO model its .pt files
StoredNames(fs) ==
    LET yolo(m) == m # None /\ "model_path" \in DOMAIN m.weights IN
    {VersionFile(n, ".json") : n \in {k \in Versions : fs.v[k] # None}}
    \cup {VersionFile(n, ".pt") : n \in {k \in Versions : yolo(fs.v[k])}}
    \cup (IF fs.latest # None THEN {LatestFile(".json")} ELSE {})
    \cup (IF yolo(fs.latest) THEN {LatestFile(".pt")} ELSE {})

\* json.load of the file with that name
FileData(fs, filename) ==
    IF filename = LatestFile(".json") THEN fs.latest
    ELSE fs.v[CHOOSE n \in Versions : filename = VersionFile(n, ".json")]

\* The sequences that hold every element of S once
Orderings(S) ==
    {o \in [1..Cardinality(S) -> S] : \A x \in S : \E i \in DOMAIN o : o[i] = x}

\* One sequence that holds every element of S once
RECURSIVE SomeOrder(_)
SomeOrder(S) ==
    IF S = {} THEN <<>>
    ELSE LET x == CHOOSE y \in S : TRUE IN <<x>> \o SomeOrder(S \ {x})

\* os.listdir gives the names in arbitrary order: the files that are not
\* version-keyed JSON first, then the version-keyed JSON files in any order
Listings(fs) ==
    LET keyed == {f \in StoredNames(fs) : IsVersionJson(f)}
        other == StoredNames(fs) \ keyed
    IN  {SomeOrder(other) \o o : o \in Orderings(keyed)}

\* history.sort(key=lambda x: x['version'], reverse=True): entry e put into
\* the sorted h, behind the entries that are not smaller (the sort is stable)
RECURSIVE InsertDescending(_, _)
InsertDescending(h, e) ==
    IF Len(h) = 0 THEN <<e>>
    ELSE IF Head(h).version >= e.version
         THEN <<Head(h)>> \o InsertDescending(Tail(h), e)
         ELSE <<e>> \o h

RECURSIVE SortDescending(_)
SortDescending(h) ==
    IF Len(h) = 0 THEN <<>>
    ELSE InsertDescending(SortDescending(SubSeq(h, 1, Len(h) - 1)), h[Len(h)])

\* One history entry ('timestamp' is left out with aggregation_timestamp)
HistoryEntry(model_data) ==
    [version |-> model_data.version,
     devices |-> model_data.participating_devices,
     accuracy |-> model_data.average_accuracy]

\* (variant: every JSON file of a model is read, the latest one too)
get_model_history_AnyJson(fs, listing) ==
    LET picked == SelectSeq(listing, LAMBDA f : f[Len(f)] = ".json")
        history == [i \in 1..Len(picked) |-> HistoryEntry(FileData(fs, picked[i]))]
    IN  [history |-> SortDescending(history), total_versions |-> Len(history)]

\* get_model_history over the directory listing `listing`
get_model_history(fs, listing) ==
    LET picked == SelectSeq(listing, IsVersionJson)
        history == [i \in 1..Len(picked) |-> HistoryEntry(FileData(fs, picked[i]))]
    IN  [history |-> SortDescending(history), total_versions |-> Len(history)]

\* GET /api/federated/model_history
SrvGetModelHistory ==
    /\ variant = "server"
    /\ \E listing \in Listings(files) :
        call' = Query("get_model_history", "ok", get_model_history(files, listing))
    /\ UNCHANGED <<variant, stream, turn, yolo_available, pending_updates, current_version,
                   global_model, files, is_online, last_online_check, now, lock, poller,
                   timer_alive>>
    /\ UNCHANGED <<detector_vars, thread_vars>>

\* FederatedAggregator.load_global_model on the storage fs; `initial` says
\* that INITIAL_MODEL_PATH exists
srv_load_global_model(fs, yolo, initial, t) ==
    IF fs.latest # None
    THEN [current_version |-> fs.latest.version, global_model |-> fs.latest, files |-> fs]
    ELSE IF initial
    THEN LET gm == create_initial_model(yolo, TRUE, t) IN
         [current_version |-> 0, global_model |-> gm,
          files |-> srv_save_global_model(fs, gm, 0, "ok")]
    ELSE [current_version |-> 0, global_model |-> None, files |-> fs]

\* A server constructed on an empty storage directory, with or without an
\* initial model file
InitHistory ==
    /\ variant = "server"
    /\ stream \in ServerStreams
    /\ turn = 1
    /\ yolo_available \in BOOLEAN
    /\ pending_updates = <<>>
    /\ now = FreshnessWindow + 1
    /\ \E initial \in BOOLEAN :
        LET l == srv_load_global_model(NoFiles, yolo_available, initial, now) IN
        /\ current_version = l.current_version
        /\ global_model = l.global_model
        /\ files = l.files
    /\ is_online = FALSE
    /\ last_online_check = 0
    /\ lock = "free"
    /\ poller = "sleeping"
    /\ timer_alive = TRUE
    /\ call = Ret("init", "none", "none", current_version, 0)
    /\ interpreter = "none"
    /\ request = None
    /\ response = None
    /\ ThreadsAtRest

NextHistory ==
    \/ SrvAddUpdate
    \/ SrvPeriodicAggregation
    \/ SrvTriggerAggregation
    \/ SrvGetModelHistory

SpecHistory == InitHistory /\ [][NextHistory]_vars

\* C21: the history answer holds one entry for each stored
\* global_model_v{n}.json, made from that file, none for
\* global_model_latest.json or a .pt file, in strictly descending version order.
C21_History ==
    [][SrvGetModelHistory =>
        LET h == call'.body.history
            stored == {n \in Versions : files.v[n] # None}
        IN  /\ call'.body.total_versions = Cardinality(stored)
            /\ Len(h) = Cardinality(stored)
            /\ \A n \in stored :
                 \E i \in DOMAIN h : /\ h[i].version = n
                                     /\ h[i].devices = files.v[n].participating_devices
                                     /\ h[i].accuracy = files.v[n].average_accuracy
            /\ \A i, j \in DOMAIN h : i < j => h[i].version > h[j].version]_vars

\* the initial model and one aggregated version: versions 1, 0
C21_Witness ==
    /\ call.op = "get_model_history"
    /\ Len(call.body.history) = 2
    /\ call.body.history[1].version = 1
    /\ call.body.history[2].version = 0
    /\ files.latest # None

(***************************************************************************)
(* TFLiteYOLODetector: decode, suppression, detect                         *)
(* Tensor values, scores and coordinates are exact rationals <<n, d>> with *)
(* d > 0 (the code computes in float32 / float64).                         *)
(***************************************************************************)
RatNeg(x) ==
    <<-x[1], x[2]>>

RatSub(x, y) ==
    RatAdd(x, RatNeg(y))

RatLess(x, y) ==
    x[1] * y[2] < y[1] * x[2]

\* x / y for y # 0
RatDiv(x, y) ==
    IF y[1] > 0 THEN Rat(x[1] * y[2], x[2] * y[1])
    ELSE Rat(-(x[1] * y[2]), -(x[2] * y[1]))

\* max(x, y), min(x, y)
RatMax(x, y) ==
    IF RatLess(x, y) THEN y ELSE x

RatMin(x, y) ==
    IF RatLess(y, x) THEN y ELSE x

\* round(x, 3) for x >= 0: to the nearest thousandth, a tie to the even one
Round3(x) ==
    LET n == x[1] * 1000
        q == n \div x[2]
        r == n % x[2]
    IN  IF 2 * r < x[2] THEN Rat(q, 1000)
        ELSE IF 2 * r > x[2] THEN Rat(q + 1, 1000)
        ELSE IF q % 2 = 0 THEN Rat(q, 1000) ELSE Rat(q + 1, 1000)

\* TFLiteYOLODetector.CLASS_NAMES, class_id 0..4 at positions 1..5
CLASS_NAMES ==
    <<"calcium_oxalate", "squamous_cells", "triple_phosphate", "uric_acid", "yeast">>

num_classes == 5

\* nms_dets[:10]
DetectionsLimit == 10

\* iou_threshold=0.45
IouThreshold == Rat(45, 100)

\* num_predictions: the anchors of the tensor (8400 in the code; here the
\* length of the rows of the tensor at hand)
num_predictions(predictions) ==
    Len(predictions[1])

\* predictions[4:9, i]: the 5 class scores of anchor i
class_scores(predictions, i) ==
    [c \in 1..num_classes |-> predictions[4 + c][i]]

\* np.max(class_scores)
max_conf(scores) ==
    CHOOSE m \in {scores[c] : c \in DOMAIN scores} :
        \A c \in DOMAIN scores : ~RatLess(m, scores[c])

\* np.argmax(class_scores): the first position of the maximum, as a class_id
best_class(scores) ==
    (CHOOSE c \in DOMAIN scores :
        /\ scores[c] = max_conf(scores)
        /\ \A b \in DOMAIN scores : b < c => scores[b] # max_conf(scores)) - 1

\* The dict appended for anchor i: confidence and the bbox [x1, y1, x2, y2]
candidate(predictions, i) ==
    LET cx == predictions[1][i]
        cy == predictions[2][i]
        w == predictions[3][i]
        h == predictions[4][i]
        half(x) == RatDiv(x, RatInt(2))
    IN  [confidence |-> max_conf(class_scores(predictions, i)),
         bbox |-> <<RatSub(cx, half(w)), RatSub(cy, half(h)),
                    RatAdd(cx, half(w)), RatAdd(cy, half(h))>>]

\* (variant: a score equal to the threshold emits a candidate too)
RECURSIVE class_candidates_AtThreshold(_, _, _, _)
class_candidates_AtThreshold(predictions, conf_threshold, class_id, n) ==
    IF n = 0 THEN <<>>
    ELSE LET scores == class_scores(predictions, n)
             before == class_candidates_AtThreshold(predictions, conf_threshold, class_id, n - 1)
         IN  IF ~RatLess(max_conf(scores), conf_threshold) /\ best_class(scores) = class_id
             THEN Append(before, candidate(predictions, n))
             ELSE before

\* detections_by_class[class_id] after the loop has visited anchors 1..n
RECURSIVE class_candidates(_, _, _, _)
class_candidates(predictions, conf_threshold, class_id, n) ==
    IF n = 0 THEN <<>>
    ELSE LET scores == class_scores(predictions, n)
             before == class_candidates(predictions, conf_threshold, class_id, n - 1)
         IN  IF RatLess(conf_threshold, max_conf(scores)) /\ best_class(scores) = class_id
             THEN Append(before, candidate(predictions, n))
             ELSE before

detections_by_class(predictions, conf_threshold) ==
    [class_id \in 0..(num_classes - 1) |->
        class_candidates(predictions, conf_threshold, class_id, num_predictions(predictions))]

\* (variant: the intersection's width and height are not clamped at 0)
iou_NoClamp(box1, box2) ==
    LET inter_xmin == RatMax(box1[1], box2[1])
        inter_ymin == RatMax(box1[2], box2[2])
        inter_xmax == RatMin(box1[3], box2[3])
        inter_ymax == RatMin(box1[4], box2[4])
        inter_area == RatMul(RatSub(inter_xmax, inter_xmin), RatSub(inter_ymax, inter_ymin))
        box1_area == RatMul(RatSub(box1[3], box1[1]), RatSub(box1[4], box1[2]))
        box2_area == RatMul(RatSub(box2[3], box2[1]), RatSub(box2[4], box2[2]))
        union_area == RatSub(RatAdd(box1_area, box2_area), inter_area)
    IN  IF union_area = RatInt(0) THEN RatInt(0)
        ELSE RatDiv(inter_area, union_area)

\* (variant: the union is the sum of the two areas, the intersection counted twice)
iou_UnionNotReduced(box1, box2) ==
    LET inter_width == RatMax(RatInt(0), RatSub(RatMin(box1[3], box2[3]),
                                                RatMax(box1[1], box2[1])))
        inter_height == RatMax(RatInt(0), RatSub(RatMin(box1[4], box2[4]),
                                                 RatMax(box1[2], box2[2])))
        inter_area == RatMul(inter_width, inter_height)
        box1_area == RatMul(RatSub(box1[3], box1[1]), RatSub(box1[4], box1[2]))
        box2_area == RatMul(RatSub(box2[3], box2[1]), RatSub(box2[4], box2[2]))
        union_area == RatAdd(box1_area, box2_area)
    IN  IF union_area = RatInt(0) THEN RatInt(0)
        ELSE RatDiv(inter_area, union_area)

\* (variant: two boxes with an empty union count as the same box)
iou_DegenerateIsOne(box1, box2) ==
    LET inter_width == RatMax(RatInt(0), RatSub(RatMin(box1[3], box2[3]),
                                                RatMax(box1[1], box2[1])))
        inter_height == RatMax(RatInt(0), RatSub(RatMin(box1[4], box2[4]),
                                                 RatMax(box1[2], box2[2])))
        inter_area == RatMul(inter_width, inter_height)
        box1_area == RatMul(RatSub(box1[3], box1[1]), RatSub(box1[4], box1[2]))
        box2_area == RatMul(RatSub(box2[3], box2[1]), RatSub(box2[4], box2[2]))
        union_area == RatSub(RatAdd(box1_area, box2_area), inter_area)
    IN  IF union_area = RatInt(0) THEN RatInt(1)
        ELSE RatDiv(inter_area, union_area)

\* TFLiteYOLODetector._iou
iou(box1, box2) ==
    LET inter_xmin == RatMax(box1[1], box2[1])
        inter_ymin == RatMax(box1[2], box2[2])
        inter_xmax == RatMin(box1[3], box2[3])
        inter_ymax == RatMin(box1[4], box2[4])
        inter_width == RatMax(RatInt(0), RatSub(inter_xmax, inter_xmin))
        inter_height == RatMax(RatInt(0), RatSub(inter_ymax, inter_ymin))
        inter_area == RatMul(inter_width, inter_height)
        box1_area == RatMul(RatSub(box1[3], box1[1]), RatSub(box1[4], box1[2]))
        box2_area == RatMul(RatSub(box2[3], box2[1]), RatSub(box2[4], box2[2]))
        union_area == RatSub(RatAdd(box1_area, box2_area), inter_area)
    IN  IF union_area = RatInt(0) THEN RatInt(0)
        ELSE RatDiv(inter_area, union_area)

\* sorted(detections, key=confidence, reverse=True): e put into the sorted
\* list behind the entries that are not smaller (the sort is stable)
RECURSIVE InsertByConfidence(_, _)
InsertByConfidence(sorted, e) ==
    IF Len(sorted) = 0 THEN <<e>>
    ELSE IF ~RatLess(Head(sorted).confidence, e.confidence)
         THEN <<Head(sorted)>> \o InsertByConfidence(Tail(sorted), e)
         ELSE <<e>> \o sorted

RECURSIVE SortByConfidence(_)
SortByConfidence(detections) ==
    IF Len(detections) = 0 THEN <<>>
    ELSE InsertByConfidence(SortByConfidence(SubSeq(detections, 1, Len(detections) - 1)),
                            detections[Len(detections)])

\* [d for d in detections if self._iou(best['bbox'], d['bbox']) < iou_threshold]
not_overlapping(best, detections, iou_threshold) ==
    SelectSeq(detections, LAMBDA d : RatLess(iou(best.bbox, d.bbox), iou_threshold))

\* The while loop of _nms on the sorted list
RECURSIVE nms_loop(_, _)
nms_loop(detections, iou_threshold) ==
    IF Len(detections) = 0 THEN <<>>
    ELSE LET best == Head(detections) IN
         <<best>> \o nms_loop(not_overlapping(best, Tail(detections), iou_threshold),
                              iou_threshold)

\* TFLiteYOLODetector._nms
nms(detections, iou_threshold) ==
    IF Len(detections) = 0 THEN <<>>
    ELSE nms_loop(SortByConfidence(detections), iou_threshold)

RECURSIVE SumConfidence(_)
SumConfidence(dets) ==
    IF Len(dets) = 0 THEN RatInt(0)
    ELSE RatAdd(Head(dets).confidence, SumConfidence(Tail(dets)))

\* (variant: count is taken from the list cut to 10)
class_result_CountTruncated(class_dets) ==
    IF Len(class_dets) > 0
    THEN LET nms_dets == nms(SortByConfidence(class_dets), IouThreshold)
             avg_conf == RatDiv(SumConfidence(nms_dets), RatInt(Len(nms_dets)))
             shown == SubSeq(nms_dets, 1,
                             IF Len(nms_dets) < DetectionsLimit
                             THEN Len(nms_dets) ELSE DetectionsLimit)
         IN  [present |-> TRUE,
              count |-> Len(shown),
              confidence |-> Round3(avg_conf),
              detections |-> shown]
    ELSE [present |-> FALSE, count |-> 0, confidence |-> RatInt(0), detections |-> <<>>]

\* final_detections[CLASS_NAMES[class_id]] for the candidates class_dets
class_result(class_dets) ==
    IF Len(class_dets) > 0
    THEN LET nms_dets == nms(SortByConfidence(class_dets), IouThreshold)
             avg_conf == RatDiv(SumConfidence(nms_dets), RatInt(Len(nms_dets)))
         IN  [present |-> TRUE,
              count |-> Len(nms_dets),
              confidence |-> Round3(avg_conf),
              detections |-> SubSeq(nms_dets, 1,
                                    IF Len(nms_dets) < DetectionsLimit
                                    THEN Len(nms_dets) ELSE DetectionsLimit)]
    ELSE [present |-> FALSE, count |-> 0, confidence |-> RatInt(0), detections |-> <<>>]

\* (variant: only the classes that have a candidate get a key)
postprocess_yolo_FoundOnly(output, conf_threshold) ==
    LET predictions == output[1]
        by_class == detections_by_class(predictions, conf_threshold)
    IN  [name \in {CLASS_NAMES[c] : c \in {b \in 1..num_classes : Len(by_class[b - 1]) > 0}} |->
            class_result(by_class[(CHOOSE c \in 1..num_classes : CLASS_NAMES[c] = name) - 1])]

\* TFLiteYOLODetector.postprocess_yolo
postprocess_yolo(output, conf_threshold) ==
    LET predictions == output[1]
        by_class == detections_by_class(predictions, conf_threshold)
    IN  [name \in {CLASS_NAMES[c] : c \in 1..num_classes} |->
            class_result(by_class[(CHOOSE c \in 1..num_classes : CLASS_NAMES[c] = name) - 1])]

\* sum(d['count'] for d in detections.values()), over the keys `names`
RECURSIVE total_objects(_, _)
total_objects(detections, names) ==
    IF names = {} THEN 0
    ELSE LET name == CHOOSE k \in names : TRUE IN
         detections[name].count + total_objects(detections, names \ {name})

\* The empty dict {}
EmptyDict == [k \in {} |-> None]

\* TFLiteYOLODetector.detect; req.fault says whether opening the image or the
\* inference raises
detect(interp, req) ==
    IF interp = "none"
    THEN [success |-> FALSE, error |-> "TFLite model not loaded", results |-> EmptyDict]
    ELSE IF req.fault # "none"
    THEN [success |-> FALSE, error |-> "Detection failed", results |-> EmptyDict]
    ELSE LET detections == postprocess_yolo(req.output, req.confidence_threshold) IN
         [success |-> TRUE,
          results |-> detections,
          total_objects |-> total_objects(detections, DOMAIN detections)]

(***************************************************************************)
(* Detection requests                                                      *)
(***************************************************************************)
MaxAnchors == 2
MaxStrip == 11

\* One column of the tensor: cx, cy, w, h and the 5 class scores
Anchor(cx, cy, w, h, scores) ==
    <<cx, cy, w, h>> \o scores

\* Scores with `conf` for class_id and 1/10 for the other classes
ScoresFor(class_id, conf) ==
    [c \in 1..num_classes |-> IF c = class_id + 1 THEN conf ELSE Rat(1, 10)]

\* Class 3 boxes [0, 0, 5/8, 1], [0, 0, 9/32, 1] and [0, 0, 3/8, 1]: the IoU of
\* the first with the second is 9/20, with the third 3/5
AncA == Anchor(Rat(5, 16), Rat(1, 2), Rat(5, 8), RatInt(1), ScoresFor(3, Rat(9, 10)))
AncB == Anchor(Rat(9, 64), Rat(1, 2), Rat(9, 32), RatInt(1), ScoresFor(3, Rat(4, 5)))
AncC == Anchor(Rat(3, 16), Rat(1, 2), Rat(3, 8), RatInt(1), ScoresFor(3, Rat(7, 10)))
\* a class 3 box of width 0
AncD == Anchor(Rat(1, 4), Rat(1, 2), RatInt(0), Rat(1, 2), ScoresFor(3, Rat(3, 5)))
\* class 3 at 0.9 with cx = cy = 0.5, w = 0.2, h = 0.1
AncS == Anchor(Rat(1, 2), Rat(1, 2), Rat(1, 5), Rat(1, 10), ScoresFor(3, Rat(9, 10)))
\* best score 1/2, the lower of the two thresholds
AncT == Anchor(Rat(1, 2), Rat(1, 2), Rat(1, 4), Rat(1, 4), ScoresFor(1, Rat(1, 2)))
\* classes 1 and 4 tie at 0.9
AncTie == Anchor(Rat(3, 4), Rat(3, 4), Rat(1, 4), Rat(1, 4),
                 [c \in 1..num_classes |-> IF c \in {2, 5} THEN Rat(9, 10) ELSE Rat(1, 10)])
\* class 0 with cx = 0.1 and w = 0.4
AncOut == Anchor(Rat(1, 10), Rat(1, 2), Rat(2, 5), Rat(1, 5), ScoresFor(0, Rat(9, 10)))
\* every score 0
AncLow == Anchor(Rat(1, 2), Rat(1, 2), Rat(1, 2), Rat(1, 2), [c \in 1..num_classes |-> RatInt(0)])

\* a class 3 anchor with w = -1/2: the box [3/4, 0, 1/4, 1] has x1 > x2
AncNegW == Anchor(Rat(1, 2), Rat(1, 2), RatNeg(Rat(1, 2)), RatInt(1), ScoresFor(3, Rat(17, 20)))
\* a class 0 anchor with w = h = -1/2: the box [3/4, 3/4, 1/4, 1/4]
AncNegWH == Anchor(Rat(1, 2), Rat(1, 2), RatNeg(Rat(1, 2)), RatNeg(Rat(1, 2)),
                   ScoresFor(0, Rat(4, 5)))

Palette == {AncA, AncB, AncC, AncD, AncS, AncT, AncTie, AncOut, AncLow, AncNegW, AncNegWH}

\* n class 4 boxes side by side, [(k-1)/16, k/16] wide, the later the more confident
Strip(n) ==
    [k \in 1..n |-> Anchor(Rat(2 * k - 1, 32), Rat(1, 2), Rat(1, 16), Rat(1, 2),
                           ScoresFor(4, Rat(60 + k, 100)))]

\* The tensor output[0] with these columns: 9 rows, one entry per anchor
Tensor(anchors) ==
    [r \in 1..9 |-> [i \in 1..Len(anchors) |-> anchors[i][r]]]

Tensors ==
    {Tensor(a) : a \in UNION {[1..n -> Palette] : n \in 0..MaxAnchors}}
    \cup {Tensor(Strip(n)) : n \in DetectionsLimit..MaxStrip}

\* confidence_threshold: 0.5 and the default 0.55
Thresholds == {Rat(1, 2), Rat(55, 100)}

\* What a detection request can be: an image the interpreter maps to some
\* tensor, an image that does not open, an inference that raises (no tensor)
Requests ==
    {[fault |-> "none", output |-> <<t>>, confidence_threshold |-> thr] :
        t \in Tensors, thr \in Thresholds}
    \cup {[fault |-> f, output |-> <<>>, confidence_threshold |-> Rat(55, 100)] :
            f \in {"image", "inference"}}

\* A detector, with or without a model file, and one request at hand
InitDetect ==
    /\ variant = "manager"
    /\ stream = <<UpdA, UpdB>>
    /\ turn = 1
    /\ yolo_available = FALSE
    /\ pending_updates = <<>>
    /\ current_version = 0
    /\ global_model = None
    /\ files = NoFiles
    /\ is_online = FALSE
    /\ last_online_check = 0
    /\ now = FreshnessWindow + 1
    /\ lock = "free"
    /\ poller = "sleeping"
    /\ timer_alive = TRUE
    /\ call = Ret("init", "none", "none", 0, 0)
    /\ interpreter \in {"loaded", "none"}
    /\ request \in Requests
    /\ response = None
    /\ ThreadsAtRest

\* (variant: a request that fails drops the interpreter)
Detect_UnloadOnFailure ==
    /\ response = None
    /\ response' = detect(interpreter, request)
    /\ interpreter' = IF response'.success THEN interpreter ELSE "none"
    /\ UNCHANGED request
    /\ UNCHANGED <<variant, stream, turn, yolo_available, pending_updates, current_version,
                   global_model, files, is_online, last_online_check, now, lock, poller,
                   timer_alive, call>>
    /\ UNCHANGED thread_vars

\* detect_objects -> TFLiteYOLODetector.detect on the request at hand
Detect ==
    /\ response = None
    /\ response' = detect(interpreter, request)
    /\ UNCHANGED <<interpreter, request>>
    /\ UNCHANGED <<variant, stream, turn, yolo_available, pending_updates, current_version,
                   global_model, files, is_online, last_online_check, now, lock, poller,
                   timer_alive, call>>
    /\ UNCHANGED thread_vars

NextDetect == Detect

SpecDetect == InitDetect /\ [][NextDetect]_vars

(***************************************************************************)
(* Properties of the detector                                              *)
(***************************************************************************)
\* detect answered the request at hand from a tensor
Decoded ==
    /\ response # None
    /\ response.success

\* C23: the candidates of class c are, in anchor order, one per anchor that
\* has some score strictly above the threshold and whose first greatest score
\* is that of c, each with that score as its confidence; an anchor none of
\* whose scores is above the threshold (one whose best equals it included)
\* gives no candidate to any class.
C23_OneCandidatePerAnchor ==
    Decoded =>
        LET predictions == request.output[1]
            thr == request.confidence_threshold
            anchors == 1..Len(predictions[1])
            score(i, c) == predictions[4 + c][i]
            emits(i) == \E c \in 1..5 : RatLess(thr, score(i, c))
            winner(i) == CHOOSE c \in 1..5 :
                            /\ \A b \in 1..5 : ~RatLess(score(i, c), score(i, b))
                            /\ \A b \in 1..(c - 1) : RatLess(score(i, b), score(i, c))
            of(c) == {i \in anchors : emits(i) /\ winner(i) = c}
            \* the k-th anchor of class c
            nth(c, k) == CHOOSE i \in of(c) : Cardinality({j \in of(c) : j <= i}) = k
            by_class == detections_by_class(predictions, thr)
        IN  \A c \in 1..5 :
              /\ Len(by_class[c - 1]) = Cardinality(of(c))
              /\ \A k \in 1..Cardinality(of(c)) :
                    by_class[c - 1][k].confidence = score(nth(c, k), c)

\* threshold 0.5: the anchor whose best score is 0.5 gives nothing, the
\* class 3 anchor at 0.9 gives the one box [0.4, 0.45, 0.6, 0.55]
C23_Witness ==
    /\ Decoded
    /\ request.output = <<Tensor(<<AncT, AncS>>)>>
    /\ request.confidence_threshold = Rat(1, 2)
    /\ response.total_objects = 1
    /\ response.results["uric_acid"].detections
          = <<[confidence |-> Rat(9, 10),
               bbox |-> <<Rat(2, 5), Rat(9, 20), Rat(3, 5), Rat(11, 20)>>]>>

\* C24 as stated: when the rows cx, cy, w, h of the tensor lie in [0, 1],
\* every bbox of the answer has x1 <= x2, y1 <= y2 and its four coordinates
\* in [0, 1].
C24_Original ==
    LET InUnit(x) == ~RatLess(x, RatInt(0)) /\ ~RatLess(RatInt(1), x) IN
    (/\ Decoded
     /\ \A r \in 1..4 : \A i \in DOMAIN request.output[1][r] :
            InUnit(request.output[1][r][i]))
    => \A name \in DOMAIN response.results :
         \A k \in DOMAIN response.results[name].detections :
            LET bbox == response.results[name].detections[k].bbox IN
            /\ ~RatLess(bbox[3], bbox[1])
            /\ ~RatLess(bbox[4], bbox[2])
            /\ \A j \in 1..4 : InUnit(bbox[j])

\* The candidates of class_id for the request at hand, most confident first
SortedCandidates(class_id) ==
    SortByConfidence(detections_by_class(request.output[1],
                                         request.confidence_threshold)[class_id])

\* C25 as stated: after _nms has kept the most confident box of a class, a
\* remaining candidate is removed exactly when its IoU with that box is
\* strictly above 0.45; one whose IoU equals 0.45 stays (so of two candidates
\* with IoU 0.45 both are counted).
C25_Original ==
    Decoded =>
        \A class_id \in 0..4 :
            LET s == SortedCandidates(class_id) IN
            Len(s) > 0 =>
                LET best == s[1]
                    rest == Tail(s)
                    left == not_overlapping(best, rest, IouThreshold)
                    above(d) == RatLess(IouThreshold, iou(best.bbox, d.bbox))
                IN  /\ \A k \in DOMAIN rest :
                        (\E m \in DOMAIN left : left[m] = rest[k]) <=> ~above(rest[k])
                    /\ Len(s) = 2 =>
                        (response.results[CLASS_NAMES[class_id + 1]].count = 2
                            <=> ~above(s[2]))

\* C26 as stated: for the candidates of one class, the kept list holds the
\* most confident candidate, holds no two boxes with IoU above 0.45, and every
\* candidate that is not kept has IoU above 0.45 with a kept box of greater or
\* equal confidence (read off answers that list every kept box).
C26_Original ==
    Decoded =>
        \A class_id \in 0..4 :
            LET s == SortedCandidates(class_id)
                result == response.results[CLASS_NAMES[class_id + 1]]
                kept == result.detections
                above(a, b) == RatLess(IouThreshold, iou(a.bbox, b.bbox))
            IN  (Len(s) > 0 /\ result.count <= DetectionsLimit) =>
                    /\ kept[1] = s[1]
                    /\ \A i, j \in DOMAIN kept : i # j => ~above(kept[i], kept[j])
                    /\ \A k \in DOMAIN s :
                         (\A m \in DOMAIN kept : kept[m] # s[k]) =>
                            \E m \in DOMAIN kept :
                                /\ above(kept[m], s[k])
                                /\ ~RatLess(kept[m].confidence, s[k].confidence)

\* The boxes decoded from the request at hand, of every class
DecodedBoxes ==
    LET by_class == detections_by_class(request.output[1], request.confidence_threshold)
    IN  UNION {{by_class[c][k].bbox : k \in DOMAIN by_class[c]} : c \in 0..4}

\* Two boxes whose interiors do not meet
Disjoint(a, b) ==
    \/ ~RatLess(b[1], a[3])
    \/ ~RatLess(a[1], b[3])
    \/ ~RatLess(b[2], a[4])
    \/ ~RatLess(a[2], b[4])

\* C27 as stated: _iou(box, box) = 1 for every box, and _iou = 0 for every
\* pair of disjoint boxes.
C27_Original ==
    Decoded =>
        /\ \A b \in DecodedBoxes : iou(b, b) = RatInt(1)
        /\ \A a, b \in DecodedBoxes : Disjoint(a, b) => iou(a, b) = RatInt(0)

\* A box with x1 <= x2 and y1 <= y2
WellFormed(b) ==
    ~RatLess(b[3], b[1]) /\ ~RatLess(b[4], b[2])

\* C27 amended: for boxes with x1 <= x2 and y1 <= y2, _iou(box, box) = 1 when
\* the box has non-zero area and 0 when its area is zero; _iou = 0 for every
\* pair of disjoint such boxes.
C27_IouSelfDisjoint ==
    Decoded =>
        /\ \A b \in DecodedBoxes :
             WellFormed(b) =>
                iou(b, b) = (IF b[1] = b[3] \/ b[2] = b[4] THEN RatInt(0) ELSE RatInt(1))
        /\ \A a, b \in DecodedBoxes :
             (WellFormed(a) /\ WellFormed(b) /\ Disjoint(a, b)) => iou(a, b) = RatInt(0)

\* the box [0.4, 0.45, 0.6, 0.55] next to the width-0 box [0.25, 0.25, 0.25, 0.75]
C27_Witness ==
    /\ Decoded
    /\ DecodedBoxes = {<<Rat(2, 5), Rat(9, 20), Rat(3, 5), Rat(11, 20)>>,
                       <<Rat(1, 4), Rat(1, 4), Rat(1, 4), Rat(3, 4)>>}
    /\ response.results["uric_acid"].count = 2

\* How often the value d stands in the sequence q
Occurrences(q, d) ==
    Cardinality({k \in DOMAIN q : q[k] = d})

\* C28: a decoded box of zero area has IoU 0 with every decoded box, itself
\* included, in either argument order; and in an answer that lists every kept
\* box of its class, a zero-area candidate stands among the kept boxes as
\* often as among the candidates (it is never removed, and kept once).
C28_DegenerateKept ==
    Decoded =>
        /\ \A d \in DecodedBoxes :
             (d[1] = d[3] \/ d[2] = d[4]) =>
                \A b \in DecodedBoxes : iou(d, b) = RatInt(0) /\ iou(b, d) = RatInt(0)
        /\ \A class_id \in 0..4 :
             LET s == SortedCandidates(class_id)
                 result == response.results[CLASS_NAMES[class_id + 1]]
             IN  result.count <= DetectionsLimit =>
                    \A k \in DOMAIN s :
                        (s[k].bbox[1] = s[k].bbox[3] \/ s[k].bbox[2] = s[k].bbox[4]) =>
                            Occurrences(result.detections, s[k]) = Occurrences(s, s[k])

\* the width-0 box [0.25, 0.25, 0.25, 0.75] lies inside the kept box
\* [0, 0, 0.625, 1] and is kept as well
C28_Witness ==
    /\ Decoded
    /\ request.output = <<Tensor(<<AncD, AncA>>)>>
    /\ response.results["uric_acid"].count = 2
    /\ response.results["uric_acid"].detections[1].bbox = <<RatInt(0), RatInt(0), Rat(5, 8), RatInt(1)>>
    /\ response.results["uric_acid"].detections[2].bbox
          = <<Rat(1, 4), Rat(1, 4), Rat(1, 4), Rat(3, 4)>>

\* The five known classes
KnownClasses ==
    {"calcium_oxalate", "squamous_cells", "triple_phosphate", "uric_acid", "yeast"}

\* A ClassResult that is absent / 0 / 0.0 / empty
IsDefault(result) ==
    /\ result.present = FALSE
    /\ result.count = 0
    /\ result.confidence = RatInt(0)
    /\ result.detections = <<>>

\* C29 as stated: the results of every answer of detect have exactly the five
\* known classes as keys.
C29_Original ==
    response # None => DOMAIN response.results = KnownClasses

\* C29 amended: the results of every successful answer have exactly the five
\* known classes as keys, and a class no anchor gave a candidate to is
\* absent / 0 / 0.0 / empty.
C29_FiveClasses ==
    Decoded =>
        /\ DOMAIN response.results = KnownClasses
        /\ \A c \in 1..5 :
             (\A k \in DOMAIN response.results[CLASS_NAMES[c]].detections : FALSE)
                => IsDefault(response.results[CLASS_NAMES[c]])
        /\ \A c \in 1..5 :
             (\A i \in DOMAIN request.output[1][1] :
                  \/ \A b \in 1..5 :
                        ~RatLess(request.confidence_threshold, request.output[1][4 + b][i])
                  \/ \E b \in 1..5 :
                        \/ RatLess(request.output[1][4 + c][i], request.output[1][4 + b][i])
                        \/ b < c /\ request.output[1][4 + c][i] = request.output[1][4 + b][i])
                => IsDefault(response.results[CLASS_NAMES[c]])

\* a tensor whose only anchor scores 0 everywhere: five keys, all absent
C29_Witness ==
    /\ Decoded
    /\ request.output = <<Tensor(<<AncLow>>)>>
    /\ DOMAIN response.results = KnownClasses
    /\ \A name \in KnownClasses : IsDefault(response.results[name])
    /\ response.total_objects = 0

\* C30: in a successful answer, for every class: present <=> count > 0 <=>
\* some anchor gave a candidate to the class; count is the length of the list
\* _nms keeps, not of the list shown; detections is the first min(count, 10)
\* kept boxes, in non-increasing confidence order; and total_objects is the
\* sum of the five counts.
C30_ClassResult ==
    Decoded =>
        /\ \A class_id \in 0..4 :
             LET s == SortedCandidates(class_id)
                 kept == nms(s, IouThreshold)
                 result == response.results[CLASS_NAMES[class_id + 1]]
                 shown == result.detections
             IN  /\ result.present <=> result.count > 0
                 /\ result.count > 0 <=> Len(s) > 0
                 /\ result.count = Len(kept)
                 /\ Len(shown) = (IF result.count < 10 THEN result.count ELSE 10)
                 /\ \A k \in DOMAIN shown : shown[k] = kept[k]
                 /\ \A k \in 1..(Len(shown) - 1) :
                        ~RatLess(shown[k].confidence, shown[k + 1].confidence)
        /\ response.total_objects
              = response.results["calcium_oxalate"].count
                + response.results["squamous_cells"].count
                + response.results["triple_phosphate"].count
                + response.results["uric_acid"].count
                + response.results["yeast"].count

\* eleven class 4 boxes side by side: all are kept and counted, ten are shown
C30_Witness ==
    /\ Decoded
    /\ request.output = <<Tensor(Strip(11))>>
    /\ response.results["yeast"].present
    /\ response.results["yeast"].count = 11
    /\ Len(response.results["yeast"].detections) = 10
    /\ response.results["yeast"].detections[1].confidence = Rat(71, 100)
    /\ response.total_objects = 11

(***************************************************************************)
(* A detector serving one request after the other                          *)
(***************************************************************************)
\* The requests that follow the first one: the failing ones and those whose
\* tensor has at most one anchor
FollowUps ==
    {r \in Requests : r.fault # "none" \/ Len(r.output[1][1]) <= 1}

\* The next request reaches detect_objects once the one at hand is answered
NextRequest ==
    /\ response # None
    /\ request' \in FollowUps
    /\ response' = None
    /\ UNCHANGED interpreter
    /\ UNCHANGED <<variant, stream, turn, yolo_available, pending_updates, current_version,
                   global_model, files, is_online, last_online_check, now, lock, poller,
                   timer_alive, call>>
    /\ UNCHANGED thread_vars

NextServe ==
    \/ Detect
    \/ NextRequest

SpecServe == InitDetect /\ [][NextServe]_vars

\* C31: every request gets an answer; it is success = false with an error
\* message and empty results exactly when the model is not loaded or the image
\* or the inference fails; and no request, failed or not, changes the
\* detector, so a loaded detector answers every later sound request with
\* success = true.
C31_FailClosed ==
    [][Detect =>
        /\ response' # None
        /\ interpreter' = interpreter
        /\ response'.success <=> (interpreter = "loaded" /\ request.fault = "none")
        /\ ~response'.success =>
              /\ response'.error \in {"TFLite model not loaded", "Detection failed"}
              /\ response'.results = EmptyDict]_vars

\* a loaded detector that has just answered a failing request
C31_Witness ==
    /\ interpreter = "loaded"
    /\ request.fault = "inference"
    /\ response # None
    /\ response.success = FALSE
    /\ response.error = "Detection failed"

(***************************************************************************)
(* Connectivity cache                                                      *)
(***************************************************************************)
\* C32: a handler that calls is_connected() once (add_update, get_status)
\* leaves the cache as it is when the cache is at most 30 seconds old, and
\* add_update then answers from the cached value; when the cache is older (or
\* was never set) the call stamps the cache with the current time and
\* add_update answers from the value the cache now holds.
C32_LazyRefresh ==
    [][(variant = "manager" /\ lock = "free" /\ (GetStatus \/ AddUpdate)) =>
        /\ IF now - last_online_check > 30
           THEN last_online_check' = now
           ELSE is_online' = is_online /\ last_online_check' = last_online_check
        /\ AddUpdate => (call'.status = "offline" <=> ~is_online')]_vars

\* the cache set at time 31 has expired at time 62, and add_update has
\* probed again and admitted the update
C32_Witness ==
    /\ variant = "manager"
    /\ now = FreshnessWindow + 1 + TickStep
    /\ last_online_check = now
    /\ is_online
    /\ call.op = "add_update"
    /\ call.status = "pending"

(***************************************************************************)
(* Version-keyed artifacts                                                 *)
(***************************************************************************)
\* C33 as stated: a global_model_v{n}.json that holds a complete model is
\* never written again: no step replaces its content by another model.
C33_Original ==
    [][\A n \in Versions :
          (files.v[n] # None /\ files.v[n] # Torn) => files'.v[n] = files.v[n]]_vars

(***************************************************************************)
(* Conservation of admitted updates                                        *)
(***************************************************************************)
\* How many updates a step appends to the pending queue
AppendedInStep ==
    IF AddUpdate /\ call'.status # "offline" THEN 1
    ELSE IF SrvAddUpdate THEN 1
    ELSE 0

\* participating_devices of the global model a step produces, 0 if none
FoldedInStep ==
    IF current_version' # current_version /\ global_model' # None
    THEN global_model'.participating_devices
    ELSE 0

\* C34 as stated: the number of updates appended so far equals the queue
\* length plus the sum of participating_devices over the versions produced so
\* far. Both sides are 0 after construction, so the equation holds in every
\* reachable state exactly when every step changes both sides by the same
\* amount: what the step appends is what the queue grows by plus what the
\* step folds into a new global model.
C34_Original ==
    [][AppendedInStep = Len(pending_updates') - Len(pending_updates) + FoldedInStep]_vars

(***************************************************************************)
(* get_federated_manager() called from concurrent request threads          *)
(***************************************************************************)
\* A process in which no handler has asked for the manager yet
InitSingleton ==
    /\ variant = "manager"
    /\ stream = <<UpdA, UpdB>>
    /\ turn = 1
    /\ yolo_available = FALSE
    /\ pending_updates = <<>>
    /\ current_version = 0
    /\ global_model = None
    /\ files = NoFiles
    /\ is_online = FALSE
    /\ last_online_check = 0
    /\ now = FreshnessWindow + 1
    /\ lock = "free"
    /\ poller = "sleeping"
    /\ timer_alive = TRUE
    /\ call = Ret("init", "none", "none", 0, 0)
    /\ interpreter = "none"
    /\ request = None
    /\ response = None
    /\ pc = [p \in Procs |-> "idle"]
    /\ local = [p \in Procs |-> None]
    /\ federated_manager = 0
    /\ instances = <<>>
    /\ probes = 0
    /\ cache_probe = 0
    /\ peer = None

\* What the steps of get_federated_manager leave alone
SingletonFrame ==
    UNCHANGED <<variant, stream, turn, yolo_available, pending_updates, current_version,
                global_model, files, is_online, last_online_check, now, lock, poller,
                timer_alive, call, interpreter, request, response, probes, cache_probe,
                peer>>

\* A request arrives and its handler calls get_federated_manager():
\* `if _federated_manager is None`
GetManagerCheck(t) ==
    /\ pc[t] = "idle"
    /\ pc' = [pc EXCEPT ![t] = IF federated_manager = 0 THEN "construct" ELSE "return"]
    /\ UNCHANGED <<local, federated_manager, instances>>
    /\ SingletonFrame

\* `_federated_manager = FederatedLearningManager()`: a new object with an
\* empty queue, its own lock and its own two background threads
GetManagerConstruct(t) ==
    /\ pc[t] = "construct"
    /\ instances' = Append(instances, 0)
    /\ federated_manager' = Len(instances) + 1
    /\ pc' = [pc EXCEPT ![t] = "return"]
    /\ UNCHANGED local
    /\ SingletonFrame

\* `return _federated_manager`: the global as it is now
GetManagerReturn(t) ==
    /\ pc[t] = "return"
    /\ local' = [local EXCEPT ![t] = [manager |-> federated_manager]]
    /\ pc' = [pc EXCEPT ![t] = "handler"]
    /\ UNCHANGED <<federated_manager, instances>>
    /\ SingletonFrame

\* The handler appends an update to the queue of the manager it was given,
\* and the request ends.
HandlerAppend(t) ==
    /\ pc[t] = "handler"
    /\ instances[local[t].manager] < MaxPending
    /\ instances' = [instances EXCEPT ![local[t].manager] = @ + 1]
    /\ local' = [local EXCEPT ![t] = None]
    /\ pc' = [pc EXCEPT ![t] = "idle"]
    /\ UNCHANGED federated_manager
    /\ SingletonFrame

NextSingleton ==
    \/ \E t \in Threads : GetManagerCheck(t)
    \/ \E t \in Threads : GetManagerConstruct(t)
    \/ \E t \in Threads : GetManagerReturn(t)
    \/ \E t \in Threads : HandlerAppend(t)

SpecSingleton == InitSingleton /\ [][NextSingleton]_vars

\* C35 as stated: at most one FederatedLearningManager is ever constructed.
C35_Original ==
    Len(instances) <= 1

(***************************************************************************)
(* Bounded staleness: the timer under fair scheduling, connectivity online *)
(***************************************************************************)
\* A step in which connectivity is online: a probe made in it found the
\* network (the cache says online afterwards), or the cache was not touched.
OnlineStep ==
    \/ is_online'
    \/ is_online' = is_online /\ last_online_check' = last_online_check

\* The manager's operations while connectivity stays online. Updates are
\* admitted while a further version can still be produced.
LiveAddUpdate ==
    /\ current_version < MaxVersion
    /\ AddUpdate
    /\ OnlineStep

LiveAddUpdateAggregate ==
    /\ AddUpdateAggregate
    /\ OnlineStep

LivePeriodicAggregation ==
    /\ PeriodicAggregation
    /\ OnlineStep

LivePeriodicAggregate ==
    /\ PeriodicAggregate
    /\ OnlineStep

LiveMonitorConnectivity ==
    /\ MonitorConnectivity
    /\ OnlineStep

LiveMonitorAggregate ==
    /\ MonitorAggregate
    /\ OnlineStep

\* A manager whose clients send well-formed updates: the same keys, samples > 0
InitLive ==
    /\ variant = "manager"
    /\ stream \in {<<UpdA, UpdB>>, <<UpdB, UpdA>>, <<UpdA>>, <<UpdB>>}
    /\ turn = 1
    /\ yolo_available = FALSE
    /\ pending_updates = <<>>
    /\ current_version = 0
    /\ global_model = None
    /\ files = NoFiles
    /\ is_online = FALSE
    /\ last_online_check = 0
    /\ now = FreshnessWindow + 1
    /\ lock = "free"
    /\ poller = "sleeping"
    /\ timer_alive = TRUE
    /\ call = Ret("init", "none", "none", 0, 0)
    /\ interpreter = "none"
    /\ request = None
    /\ response = None
    /\ ThreadsAtRest

NextLive ==
    \/ Tick
    \/ LiveAddUpdate
    \/ LiveAddUpdateAggregate
    \/ LivePeriodicAggregation
    \/ LivePeriodicAggregate
    \/ LiveMonitorConnectivity
    \/ LiveMonitorAggregate

\* The end of a `with self.lock` block entered by add_update / by the timer
HandlerReleases ==
    lock = "add_update" /\ lock' = "free"

TimerReleases ==
    lock = "timer" /\ lock' = "free"

\* Fairness: the timer thread's loop never ends (`while True`, every exception
\* below it is caught), so its wake-up happens again and again once the lock
\* is free, and a thread that holds the lock runs on to the release at the
\* end of its `with self.lock` block.
SpecLive ==
    /\ InitLive
    /\ [][NextLive]_vars
    /\ WF_vars(LivePeriodicAggregation)
    /\ WF_lock(TimerReleases)
    /\ WF_lock(HandlerReleases)

\* C36: with connectivity online and well-formed updates, a non-empty pending
\* queue is always followed by a state in which _aggregate_updates has
\* returned True and the queue is empty: every admitted update is eventually
\* folded into a global model.
C36_BoundedStaleness ==
    (pending_updates # <<>>) ~> (pending_updates = <<>> /\ call.agg = "true")

\* the timer has folded a queue below the threshold into version 1
C36_Witness ==
    /\ call.op = "periodic_aggregation"
    /\ call.agg = "true"
    /\ pending_updates = <<>>
    /\ global_model # None
    /\ global_model.participating_devices < AGGREGATION_THRESHOLD

(***************************************************************************)
(* The connectivity cache under concurrent threads: the poller writes it   *)
(* without the lock, and the query handlers call is_connected() without it *)
(***************************************************************************)
\* The global model a manager has loaded from global_model_latest.json
LoadedModel == NewGlobalModel(<<UpdA>>, 1)

\* A manager constructed on a storage directory that holds version 1
InitCache ==
    /\ variant = "manager"
    /\ stream = <<UpdA, UpdB>>
    /\ turn = 1
    /\ yolo_available = FALSE
    /\ pending_updates = <<>>
    /\ current_version = 1
    /\ global_model = LoadedModel
    /\ files = save_global_model(NoFiles, LoadedModel, 1, "ok")
    /\ is_online = FALSE
    /\ last_online_check = 0
    /\ now = FreshnessWindow + 1
    /\ lock = "free"
    /\ poller = "sleeping"
    /\ timer_alive = TRUE
    /\ call = Ret("init", "none", "none", 1, 0)
    /\ interpreter = "none"
    /\ request = None
    /\ response = None
    /\ ThreadsAtRest

\* What no step of these threads touches
CacheFrame ==
    UNCHANGED <<variant, stream, turn, yolo_available, pending_updates, current_version,
                global_model, files, now, lock, poller, timer_alive, interpreter, request,
                response, federated_manager, instances, peer>>

\* The locals of a thread inside a handler: the handler, the ?version= it was
\* sent, has_update before the connectivity test, which is_connected() call
\* of the response it is in, the probe it made, and the two answers.
Locals(op, client_version, newer, n) ==
    [op |-> op, client_version |-> client_version, newer |-> newer, call |-> n,
     probe |-> 0, result |-> FALSE, has_update |-> FALSE, online |-> FALSE]

\* _monitor_connectivity wakes from time.sleep(CHECK_INTERNET_INTERVAL)
PollerWake ==
    /\ pc[0] = "idle"
    /\ pc' = [pc EXCEPT ![0] = "probe"]
    /\ local' = [local EXCEPT ![0] = Locals("monitor_connectivity", 0, FALSE, 0)]
    /\ UNCHANGED <<is_online, last_online_check, call, probes, cache_probe>>
    /\ CacheFrame

\* check_model_updates up to the response: get_global_model(), has_update;
\* `has_update and manager.is_connected()` makes the first call only when
\* has_update is true.
CheckStart(t) ==
    /\ pc[t] = "idle"
    /\ \E client_version \in Versions :
        LET newer == global_model # None /\ global_model.version > client_version IN
        local' = [local EXCEPT ![t] = Locals("check_model_updates", client_version, newer,
                                             IF newer THEN 1 ELSE 2)]
    /\ pc' = [pc EXCEPT ![t] = "enter"]
    /\ UNCHANGED <<is_online, last_online_check, call, probes, cache_probe>>
    /\ CacheFrame

\* get_latest_model with a global model present: one is_connected() call
LatestStart(t) ==
    /\ pc[t] = "idle"
    /\ global_model # None
    /\ local' = [local EXCEPT ![t] = Locals("get_latest_model", 0, TRUE, 2)]
    /\ pc' = [pc EXCEPT ![t] = "enter"]
    /\ UNCHANGED <<is_online, last_online_check, call, probes, cache_probe>>
    /\ CacheFrame

\* is_connected(): `if time.time() - self.last_online_check > 30`
Enter(t) ==
    /\ pc[t] = "enter"
    /\ pc' = [pc EXCEPT ![t] = IF now - last_online_check > FreshnessWindow
                               THEN "probe" ELSE "return"]
    /\ UNCHANGED <<local, is_online, last_online_check, call, probes, cache_probe>>
    /\ CacheFrame

\* check_internet_connection() returns, in the poller or inside is_connected()
Probe(p) ==
    /\ pc[p] = "probe"
    /\ probes < MaxProbes
    /\ \E reach \in BOOLEAN :
        local' = [local EXCEPT ![p].probe = probes + 1,
                               ![p].result = check_internet_connection(reach)]
    /\ probes' = probes + 1
    /\ pc' = [pc EXCEPT ![p] = "store"]
    /\ UNCHANGED <<is_online, last_online_check, call, cache_probe>>
    /\ CacheFrame

\* `self.is_online = ` the value the probe returned
Store(p) ==
    /\ pc[p] = "store"
    /\ is_online' = local[p].result
    /\ cache_probe' = local[p].probe
    /\ pc' = [pc EXCEPT ![p] = "stamp"]
    /\ UNCHANGED <<local, last_online_check, call, probes>>
    /\ CacheFrame

\* `self.last_online_check = time.time()`; the poller then finds the queue
\* below the threshold and sleeps again.
Stamp(p) ==
    /\ pc[p] = "stamp"
    /\ last_online_check' = now
    /\ pc' = [pc EXCEPT ![p] = IF p = 0 THEN "idle" ELSE "return"]
    \* the value the probe returned is not used again
    /\ local' = IF p = 0 THEN [local EXCEPT ![0] = None]
                ELSE [local EXCEPT ![p].probe = 0, ![p].result = FALSE]
    /\ UNCHANGED <<is_online, call, probes, cache_probe>>
    /\ CacheFrame

\* `return self.is_online`, and what the handler does with the value
Return(t) ==
    /\ pc[t] = "return"
    /\ IF local[t].call = 1
       THEN /\ local' = [local EXCEPT ![t].has_update = local[t].newer /\ is_online,
                                      ![t].call = 2]
            /\ pc' = [pc EXCEPT ![t] = "enter"]
       ELSE /\ local' = [local EXCEPT ![t].online = is_online]
            /\ pc' = [pc EXCEPT ![t] = "respond"]
    /\ UNCHANGED <<is_online, last_online_check, call, probes, cache_probe>>
    /\ CacheFrame

\* jsonify(...): the response of the handler
Respond(t) ==
    /\ pc[t] = "respond"
    /\ call' = IF local[t].op = "check_model_updates"
               THEN Query("check_model_updates", "ok",
                          [has_update |-> local[t].has_update,
                           latest_version |-> global_model.version,
                           online |-> local[t].online,
                           client_version |-> local[t].client_version])
               ELSE IF local[t].online
               THEN Query("get_latest_model", "model",
                          [model_available |-> TRUE, version |-> global_model.version,
                           weights |-> global_model.weights,
                           participating_devices |-> global_model.participating_devices,
                           average_accuracy |-> global_model.average_accuracy])
               ELSE Query("get_latest_model", "offline", [model_available |-> FALSE])
    /\ pc' = [pc EXCEPT ![t] = "idle"]
    /\ local' = [local EXCEPT ![t] = None]
    /\ UNCHANGED <<is_online, last_online_check, probes, cache_probe>>
    /\ CacheFrame

NextCache ==
    \/ Tick
    \/ PollerWake
    \/ \E t \in Threads : CheckStart(t)
    \/ \E t \in Threads : LatestStart(t)
    \/ \E t \in Threads : Enter(t)
    \/ \E p \in Procs : Probe(p)
    \/ \E p \in Procs : Store(p)
    \/ \E p \in Procs : Stamp(p)
    \/ \E t \in Threads : Return(t)
    \/ \E t \in Threads : Respond(t)

SpecCache == InitCache /\ [][NextCache]_vars

\* C37 as stated: the cache is never overwritten by an older probe: the value
\* self.is_online holds is never replaced by the different result of a probe
\* that returned before the one it came from.
C37_Original ==
    [][cache_probe' < cache_probe => is_online' = is_online]_vars

\* C38 as stated: in every response of check_model_updates, has_update = true
\* implies online = true.
C38_Original ==
    call.op = "check_model_updates" => (call.body.has_update => call.body.online)

(***************************************************************************)
(* The two aggregator classes fed the same add_update calls                *)
(***************************************************************************)
\* Updates that carry plain weight vectors
PlainUpdates == {UpdA, UpdB, UpdZ, UpdE, UpdS}

\* What the clients of a run send, round-robin
PlainStreams ==
    {<<u>> : u \in PlainUpdates} \cup {<<u, v>> : u, v \in PlainUpdates}

\* The fields the two classes have in common
Aggregator(q, version, gm, fs) ==
    [pending_updates |-> q, current_version |-> version, global_model |-> gm, files |-> fs]

\* A manager and a server, each constructed on its own empty storage directory
InitPair ==
    /\ variant = "manager"
    /\ stream \in PlainStreams
    /\ turn = 1
    /\ yolo_available = FALSE
    /\ pending_updates = <<>>
    /\ current_version = 0
    /\ global_model = None
    /\ files = NoFiles
    /\ is_online = FALSE
    /\ last_online_check = 0
    /\ now = FreshnessWindow + 1
    /\ lock = "free"
    /\ poller = "sleeping"
    /\ timer_alive = TRUE
    /\ call = Ret("init", "none", "none", 0, 0)
    /\ interpreter = "none"
    /\ request = None
    /\ response = None
    /\ pc = [p \in Procs |-> "idle"]
    /\ local = [p \in Procs |-> None]
    /\ federated_manager = 1
    /\ instances = <<0>>
    /\ probes = 0
    /\ cache_probe = 0
    /\ peer = Aggregator(<<>>, 0, None, NoFiles)

\* The same update is sent to both: FederatedLearningManager.add_update with
\* the network reachable, and FederatedAggregator.add_update. A write that
\* fails on one storage directory fails on the other.
PairAddUpdate ==
    /\ Len(pending_updates) < MaxPending
    /\ Len(peer.pending_updates) < MaxPending
    /\ current_version < MaxVersion
    /\ peer.current_version < MaxVersion
    /\ \E wr \in WriteOutcomes :
        LET c == is_connected(is_online, last_online_check, now, TRUE)
            q == Append(pending_updates, stream[turn])
            m == IF Len(q) >= AGGREGATION_THRESHOLD
                 THEN aggregate_updates(q, current_version, global_model, files, c.result, wr)
                 ELSE [pending_updates |-> q, current_version |-> current_version,
                       global_model |-> global_model, files |-> files, result |-> FALSE]
            sq == Append(peer.pending_updates, stream[turn])
            s == IF Len(sq) >= AGGREGATION_THRESHOLD
                 THEN srv_aggregate_updates(sq, peer.current_version, peer.global_model,
                                            peer.files, yolo_available, "ok", wr)
                 ELSE [pending_updates |-> sq, current_version |-> peer.current_version,
                       global_model |-> peer.global_model, files |-> peer.files,
                       raised |-> FALSE]
        IN  /\ is_online' = c.is_online
            /\ last_online_check' = c.last_online_check
            /\ pending_updates' = m.pending_updates
            /\ current_version' = m.current_version
            /\ global_model' = m.global_model
            /\ files' = m.files
            /\ peer' = Aggregator(s.pending_updates, s.current_version, s.global_model,
                                  s.files)
            /\ call' = Ret("add_update",
                           IF Len(q) >= AGGREGATION_THRESHOLD THEN "aggregated" ELSE "pending",
                           IF Len(q) >= AGGREGATION_THRESHOLD THEN AggOf(m.result) ELSE "none",
                           m.current_version, Len(m.pending_updates))
    /\ turn' = NextTurn(stream, turn)
    /\ UNCHANGED <<variant, stream, yolo_available, now, lock, poller, timer_alive>>
    /\ UNCHANGED <<detector_vars, pc, local, federated_manager, instances, probes,
                   cache_probe>>

NextPair ==
    \/ PairAddUpdate
    \/ Tick

SpecPair == InitPair /\ [][NextPair]_vars

\* C39 as stated: after the same add_update calls the two classes have the
\* same pending queue, the same current_version and global models with the
\* same weights and participating_devices.
C39_Original ==
    /\ peer.pending_updates = pending_updates
    /\ peer.current_version = current_version
    /\ (peer.global_model = None) <=> (global_model = None)
    /\ global_model # None =>
          /\ peer.global_model.weights = global_model.weights
          /\ peer.global_model.participating_devices = global_model.participating_devices

(***************************************************************************)
(* _iou over every box the decoder emits                                   *)
(***************************************************************************)
\* C40: for every pair of boxes decoded from a tensor (boxes with negative or
\* zero width or height and boxes reaching outside [0, 1] included),
\* 0 <= _iou(a, b) <= 1 and _iou(a, b) = _iou(b, a).
C40_IouRangeSymmetric ==
    Decoded =>
        \A a \in DecodedBoxes, b \in DecodedBoxes :
            /\ ~RatLess(iou(a, b), RatInt(0))
            /\ ~RatLess(RatInt(1), iou(a, b))
            /\ iou(a, b) = iou(b, a)

\* a tensor was decoded into a box with x1 > x2 and a well-formed box of
\* non-zero area that reaches into the strip between its two edges
C40_Witness ==
    /\ Decoded
    /\ \E a \in DecodedBoxes, b \in DecodedBoxes :
        /\ RatLess(a[3], a[1])
        /\ WellFormed(b)
        /\ RatLess(b[1], a[1]) /\ RatLess(a[3], b[3])
        /\ RatLess(b[2], b[4])

====
